---- MODULE Spec2Model ----
(***************************************************************************)
(* Cross-chapter pattern analysis (backend/app/services/pattern_analyzer.py)*)
(* with its per-chapter incremental cache.                                 *)
(*                                                                         *)
(* A Python str is modelled as the sequence of its Unicode code points, so *)
(* len(), slicing, `in` and str.count keep their meaning.  The comments    *)
(* give the glyphs.                                                        *)
(***************************************************************************)
EXTENDS Integers, Sequences, FiniteSets, TLC

Min(a, b) == IF a < b THEN a ELSE b
Max(a, b) == IF a > b THEN a ELSE b

\* Python's None
None == "None"

(***************************************************************************)
(* Vocabulary tables                                                       *)
(***************************************************************************)

\* common_verbs (lines 225-231): 从 做 到 去 叫 向 哭 喊 在 坐 对 想 把 是 有 来 看 站 笑 给 被 让 说 走 跑 躺 过 道 低头 停止 关上 出现 发现 听到 回头 开始 打开 抬头 拿起 放下 消失 知道 结束 继续 觉得 认为 转身
common_verbs ==
  {
    <<20174>>, <<20570>>, <<21040>>, <<21435>>, <<21483>>, <<21521>>, <<21741>>, <<21898>>,
    <<22312>>, <<22352>>, <<23545>>, <<24819>>, <<25226>>, <<26159>>, <<26377>>, <<26469>>,
    <<30475>>, <<31449>>, <<31505>>, <<32473>>, <<34987>>, <<35753>>, <<35828>>, <<36208>>,
    <<36305>>, <<36538>>, <<36807>>, <<36947>>, <<20302, 22836>>, <<20572, 27490>>,
    <<20851, 19978>>, <<20986, 29616>>, <<21457, 29616>>, <<21548, 21040>>, <<22238, 22836>>,
    <<24320, 22987>>, <<25171, 24320>>, <<25260, 22836>>, <<25343, 36215>>, <<25918, 19979>>,
    <<28040, 22833>>, <<30693, 36947>>, <<32467, 26463>>, <<32487, 32493>>, <<35273, 24471>>,
    <<35748, 20026>>, <<36716, 36523>>
  }

\* keep_words (lines 234-239): 不 与 也 了 但 再 又 只 吗 吧 呢 和 啊 地 太 就 很 得 或 才 没 的 着 过 还 都 不会 不是 不能 但是 因为 如果 所以 没有 然而
keep_words ==
  {
    <<19981>>, <<19982>>, <<20063>>, <<20102>>, <<20294>>, <<20877>>, <<21448>>, <<21482>>,
    <<21527>>, <<21543>>, <<21602>>, <<21644>>, <<21834>>, <<22320>>, <<22826>>, <<23601>>,
    <<24456>>, <<24471>>, <<25110>>, <<25165>>, <<27809>>, <<30340>>, <<30528>>, <<36807>>,
    <<36824>>, <<37117>>, <<19981, 20250>>, <<19981, 26159>>, <<19981, 33021>>,
    <<20294, 26159>>, <<22240, 20026>>, <<22914, 26524>>, <<25152, 20197>>, <<27809, 26377>>,
    <<28982, 32780>>
  }

\* pronouns (lines 242-243): 他 你 她 它 我 谁 这 那 他们 你们 大家 她们 它们 我们 自己 这个 这些 那个 那些
pronouns ==
  {
    <<20182>>, <<20320>>, <<22905>>, <<23427>>, <<25105>>, <<35841>>, <<36825>>, <<37027>>,
    <<20182, 20204>>, <<20320, 20204>>, <<22823, 23478>>, <<22905, 20204>>, <<23427, 20204>>,
    <<25105, 20204>>, <<33258, 24049>>, <<36825, 20010>>, <<36825, 20123>>, <<37027, 20010>>,
    <<37027, 20123>>
  }

\* OPENING_KEYWORDS["dialogue"]: 「 " ' “ 『
OPENING_KEYWORDS_dialogue ==
  {
    <<12300>>, <<34>>, <<39>>, <<8220>>, <<12302>>
  }

\* OPENING_KEYWORDS["time"]: 清晨 早上 上午 中午 下午 傍晚 黄昏 夜晚 深夜 凌晨 天亮 天黑 日出 日落 午后 夜深 拂晓 黎明 第二天 第三天 几天后 一周后 一个月后 次日
OPENING_KEYWORDS_time ==
  {
    <<28165, 26216>>, <<26089, 19978>>, <<19978, 21320>>, <<20013, 21320>>, <<19979, 21320>>,
    <<20621, 26202>>, <<40644, 26127>>, <<22812, 26202>>, <<28145, 22812>>, <<20940, 26216>>,
    <<22825, 20142>>, <<22825, 40657>>, <<26085, 20986>>, <<26085, 33853>>, <<21320, 21518>>,
    <<22812, 28145>>, <<25282, 26195>>, <<40654, 26126>>, <<31532, 20108, 22825>>,
    <<31532, 19977, 22825>>, <<20960, 22825, 21518>>, <<19968, 21608, 21518>>,
    <<19968, 20010, 26376, 21518>>, <<27425, 26085>>
  }

\* OPENING_KEYWORDS["weather"]: 阳光 月光 星光 细雨 大雨 暴雨 风 雪 云 雾 晴朗 阴沉 乌云 雷电 闪电
OPENING_KEYWORDS_weather ==
  {
    <<38451, 20809>>, <<26376, 20809>>, <<26143, 20809>>, <<32454, 38632>>, <<22823, 38632>>,
    <<26292, 38632>>, <<39118>>, <<38634>>, <<20113>>, <<38654>>, <<26228, 26391>>,
    <<38452, 27785>>, <<20044, 20113>>, <<38647, 30005>>, <<38378, 30005>>
  }

\* OPENING_KEYWORDS["action"]: 走进 推开 打开 关上 站在 坐在 躺在 跑向 冲向
OPENING_KEYWORDS_action ==
  {
    <<36208, 36827>>, <<25512, 24320>>, <<25171, 24320>>, <<20851, 19978>>, <<31449, 22312>>,
    <<22352, 22312>>, <<36538, 22312>>, <<36305, 21521>>, <<20914, 21521>>
  }

\* EMOTION_VOCABULARY, in dict order; each category's expressions in list order
EMOTIONS == <<"happy", "sad", "angry", "fear", "surprise">>

\* happy: 笑了笑 笑了起来 嘴角上扬 嘴角微扬 露出笑容 开心地 高兴地 欣喜 喜悦 乐呵呵
EMOTION_EXPRESSIONS_happy ==
  <<
    <<31505, 20102, 31505>>, <<31505, 20102, 36215, 26469>>, <<22068, 35282, 19978, 25196>>,
    <<22068, 35282, 24494, 25196>>, <<38706, 20986, 31505, 23481>>, <<24320, 24515, 22320>>,
    <<39640, 20852, 22320>>, <<27427, 21916>>, <<21916, 24742>>, <<20048, 21621, 21621>>
  >>

\* sad: 叹了口气 叹气 眼眶泛红 眼眶湿润 流下眼泪 泪流满面 悲伤地 伤心地 难过地 黯然
EMOTION_EXPRESSIONS_sad ==
  <<
    <<21497, 20102, 21475, 27668>>, <<21497, 27668>>, <<30524, 30518, 27867, 32418>>,
    <<30524, 30518, 28287, 28070>>, <<27969, 19979, 30524, 27882>>,
    <<27882, 27969, 28385, 38754>>, <<24754, 20260, 22320>>, <<20260, 24515, 22320>>,
    <<38590, 36807, 22320>>, <<40687, 28982>>
  >>

\* angry: 怒道 怒吼 冷哼 大怒 勃然大怒 气愤地 愤怒地 怒气冲冲 火冒三丈
EMOTION_EXPRESSIONS_angry ==
  <<
    <<24594, 36947>>, <<24594, 21564>>, <<20919, 21756>>, <<22823, 24594>>,
    <<21187, 28982, 22823, 24594>>, <<27668, 24868, 22320>>, <<24868, 24594, 22320>>,
    <<24594, 27668, 20914, 20914>>, <<28779, 20882, 19977, 19976>>
  >>

\* fear: 害怕 恐惧 惊恐 惊慌 慌张 心惊胆战 胆战心惊 瑟瑟发抖
EMOTION_EXPRESSIONS_fear ==
  <<
    <<23475, 24597>>, <<24656, 24807>>, <<24778, 24656>>, <<24778, 24908>>, <<24908, 24352>>,
    <<24515, 24778, 32966, 25112>>, <<32966, 25112, 24515, 24778>>,
    <<29791, 29791, 21457, 25238>>
  >>

\* surprise: 惊讶 吃惊 震惊 愕然 目瞪口呆 大吃一惊 惊呆了 不敢相信
EMOTION_EXPRESSIONS_surprise ==
  <<
    <<24778, 35766>>, <<21507, 24778>>, <<38663, 24778>>, <<24853, 28982>>,
    <<30446, 30634, 21475, 21574>>, <<22823, 21507, 19968, 24778>>, <<24778, 21574, 20102>>,
    <<19981, 25954, 30456, 20449>>
  >>


(***************************************************************************)
(* String helpers (Python str semantics)                                   *)
(***************************************************************************)

\* s[:n]
Prefix(s, n) == SubSeq(s, 1, Min(n, Len(s)))

\* s.startswith(w)
startswith(s, w) == Len(w) <= Len(s) /\ SubSeq(s, 1, Len(w)) = w

\* w in s  (substring test)
Contains(s, w) ==
    \E i \in 1..(Len(s) - Len(w) + 1) : s[i] = w[1] /\ SubSeq(s, i, i + Len(w) - 1) = w

\* the positions from i on at which w occurs in s
occurrences_from(s, w, i) ==
    {p \in i..(Len(s) - Len(w) + 1) : s[p] = w[1] /\ SubSeq(s, p, p + Len(w) - 1) = w}

\* s.count(w) from position i: non-overlapping occurrences, left to right; each step
\* jumps to the leftmost occurrence and continues behind it
RECURSIVE count_from(_, _, _)
count_from(s, w, i) ==
    IF occurrences_from(s, w, i) = {} THEN 0
    ELSE 1 + count_from(s, w, Len(w) + CHOOSE p \in occurrences_from(s, w, i) : \A q \in occurrences_from(s, w, i) : p <= q)

str_count(s, w) == count_from(s, w, 1)

\* the characters str.strip() removes
Whitespace == (9..13) \cup (28..32) \cup {133, 160, 5760} \cup (8192..8202)
              \cup {8232, 8233, 8239, 8287, 12288}

RECURSIVE lstrip(_)
lstrip(s) == IF s # <<>> /\ Head(s) \in Whitespace THEN lstrip(Tail(s)) ELSE s

RECURSIVE rstrip(_)
rstrip(s) ==
    IF s # <<>> /\ s[Len(s)] \in Whitespace THEN rstrip(SubSeq(s, 1, Len(s) - 1)) ELSE s

strip(s) == rstrip(lstrip(s))

\* ''.join(items)
RECURSIVE join(_)
join(items) == IF items = <<>> THEN <<>> ELSE Head(items) \o join(Tail(items))

(***************************************************************************)
(* Segmenter                                                               *)
(***************************************************************************)

\* the character class of the split pattern: 。 ！ ？ ! ?
Terminators == {12290, 65281, 65311, 33, 63}

RECURSIVE SkipTerminators(_, _)
SkipTerminators(text, i) ==
    IF i <= Len(text) /\ text[i] \in Terminators THEN SkipTerminators(text, i + 1) ELSE i

\* the positions from i on at which a match of the split pattern can start
match_starts(text, i) == {p \in i..Len(text) : text[p] \in Terminators}

first_match(text, i) == CHOOSE p \in match_starts(text, i) : \A q \in match_starts(text, i) : p <= q

\* the end of the match that starts at m: behind the run of terminators and the
\* optional '"'
match_end(text, m) ==
    IF SkipTerminators(text, m) <= Len(text) /\ text[SkipTerminators(text, m)] = 34
    THEN SkipTerminators(text, m) + 1
    ELSE SkipTerminators(text, m)

\* re.split(r'[。！？!?]+"?', text) from position i: the pieces between the matches,
\* each match the leftmost one behind the previous match
RECURSIVE re_split(_, _)
re_split(text, i) ==
    IF match_starts(text, i) = {} THEN <<SubSeq(text, i, Len(text))>>
    ELSE <<SubSeq(text, i, first_match(text, i) - 1)>>
         \o re_split(text, match_end(text, first_match(text, i)))

split_sentences(text) ==
    LET pieces == re_split(text, 1)
        Keep(s) == s # <<>> /\ Len(strip(s)) > 3
        kept == SelectSeq(pieces, Keep)
    IN  [i \in 1..Len(kept) |-> strip(kept[i])]

(***************************************************************************)
(* Template abstractor, character-class strategy                           *)
(***************************************************************************)

\* '[名词]' and '[代词]'
PLACEHOLDER_NOUN == <<91, 21517, 35789, 93>>
PLACEHOLDER_PRONOUN == <<91, 20195, 35789, 93>>

\* the punctuation kept verbatim: ， 。 ！ ？ 、 ； ： " （ ） 【 】 《 》 … —
kept_punctuation == {65292, 12290, 65281, 65311, 12289, 65307, 65306, 34, 65288, 65289, 12304, 12305, 12298, 12299, 8230, 8212}

\* '一' <= char <= '鿿'
IsCJK(ch) == 19968 <= ch /\ ch <= 40959

\* the while loop of _extract_template_simple_impl from index i; result is the
\* list of appended items
RECURSIVE simple_scan(_, _, _)
simple_scan(text, i, result) ==
    IF i > Len(text) THEN result
    ELSE LET two == IF i + 1 <= Len(text) THEN SubSeq(text, i, i + 1) ELSE <<>>
             ch == text[i]
         IN  IF two # <<>> /\ (two \in common_verbs \/ two \in keep_words)
             THEN simple_scan(text, i + 2, Append(result, two))
             ELSE IF two # <<>> /\ two \in pronouns
             THEN simple_scan(text, i + 2, Append(result, PLACEHOLDER_PRONOUN))
             ELSE IF <<ch>> \in common_verbs \/ <<ch>> \in keep_words
             THEN simple_scan(text, i + 1, Append(result, <<ch>>))
             ELSE IF <<ch>> \in pronouns
             THEN simple_scan(text, i + 1, Append(result, PLACEHOLDER_PRONOUN))
             ELSE IF ch \in kept_punctuation
             THEN simple_scan(text, i + 1, Append(result, <<ch>>))
             ELSE IF IsCJK(ch)
             THEN IF result # <<>> /\ result[Len(result)] = PLACEHOLDER_NOUN
                  THEN simple_scan(text, i + 1, result)
                  ELSE simple_scan(text, i + 1, Append(result, PLACEHOLDER_NOUN))
             ELSE simple_scan(text, i + 1, Append(result, <<ch>>))

extract_template_simple_impl(sentence) == join(simple_scan(sentence, 1, <<>>))

\* extract_template_cached: the LRU memo returns what the active strategy computes
extract_template_cached(sentence) == extract_template_simple_impl(sentence)

\* extract_templates_batch: one template per sentence, in order
extract_templates_batch(sentences) ==
    [i \in 1..Len(sentences) |-> extract_template_cached(sentences[i])]

(***************************************************************************)
(* Template abstractor, tagger-backed strategy                             *)
(***************************************************************************)

\* the semantic groups of verbs, in the order of the dict
VERB_SEMANTIC_GROUPS ==
  <<
    \* [视觉]
    [tag |-> <<91, 35270, 35273, 93>>,
     verbs |-> {
        <<20208, 26395>>, <<20463, 35270>>, <<20957, 35270>>, <<23457, 35270>>,
        <<25171, 37327>>, <<25195, 35270>>, <<26395>>, <<27880, 35270>>,
        <<29615, 39038>>, <<30447>>, <<30475>>, <<30522, 26395>>, <<30597>>, <<30631>>,
        <<35266, 23519>>}],
    \* [言语]
    [tag |-> <<91, 35328, 35821, 93>>,
     verbs |-> {
        <<20302, 35821>>, <<21483>>, <<21564>>, <<21602, 21891>>, <<21898>>,
        <<22047, 22228>>, <<22199>>, <<22238, 24212>>, <<22238, 31572>>, <<31572>>,
        <<35762>>, <<35828>>, <<36731, 22768>>, <<36947>>, <<38382>>}],
    \* [移动]
    [tag |-> <<91, 31227, 21160, 93>>,
     verbs |-> {
        <<20914>>, <<22868>>, <<24555, 27493>>, <<28316>>, <<28378>>, <<28459, 27493>>,
        <<29228>>, <<30142, 27493>>, <<31388>>, <<36208>>, <<36305>>, <<36339>>,
        <<36401>>, <<38383>>, <<39134>>}],
    \* [手动]
    [tag |-> <<91, 25163, 21160, 93>>,
     verbs |-> {
        <<20002>>, <<20030>>, <<25172>>, <<25235>>, <<25289>>, <<25294>>, <<25341>>,
        <<25343>>, <<25353>>, <<25423>>, <<25509>>, <<25512>>, <<25552>>, <<25569>>,
        <<25720>>, <<25918>>, <<30896>>, <<35302>>, <<36882>>}],
    \* [情感]
    [tag |-> <<91, 24773, 24863, 93>>,
     verbs |-> {
        <<21497>>, <<21574>>, <<21741>>, <<21916>>, <<24594>>, <<24597>>, <<24680>>,
        <<24754>>, <<24778>>, <<24833>>, <<24867>>, <<24908>>, <<29233>>, <<31505>>}],
    \* [思维]
    [tag |-> <<91, 24605, 32500, 93>>,
     verbs |-> {
        <<22238, 24518>>, <<23547, 24605>>, <<24536, 35760>>, <<24605>>,
        <<24605, 32034>>, <<24819>>, <<25026>>, <<26126, 30333>>, <<29702, 35299>>,
        <<29730, 30952>>, <<30424, 31639>>, <<30693, 36947>>, <<32771, 34385>>,
        <<35760, 24471>>}],
    \* [姿态]
    [tag |-> <<91, 23039, 24577, 93>>,
     verbs |-> {
        <<20506>>, <<21351>>, <<22352>>, <<31435>>, <<31449>>, <<36276>>, <<36330>>,
        <<36466>>, <<36538>>, <<38752>>}],
    \* [头动]
    [tag |-> <<91, 22836, 21160, 93>>,
     verbs |-> {
        <<20208, 22836>>, <<20302, 22836>>, <<20391, 22836>>, <<22238, 22836>>,
        <<22475, 22836>>, <<25260, 22836>>, <<25671, 22836>>, <<28857, 22836>>,
        <<36716, 22836>>}],
    \* [表情]
    [tag |-> <<91, 34920, 24773, 93>>,
     verbs |-> {
        <<21676, 21767>>, <<22047, 22068>>, <<25196, 30473>>, <<25279, 21767>>,
        <<25361, 30473>>, <<25735, 22068>>, <<30385, 30473>>, <<30511, 30524>>,
        <<30529, 30524>>, <<30634, 30524>>, <<36441, 30473>>, <<38381, 30524>>}]
  >>

\* the groups whose verbs contain the word: VERB_TO_SEMANTIC has the word as a key
\* exactly if there is one (no verb is in two groups)
semantic_groups(word) == {g \in 1..Len(VERB_SEMANTIC_GROUPS) : word \in VERB_SEMANTIC_GROUPS[g].verbs}

\* VERB_TO_SEMANTIC[word] of a word that is a key
VERB_TO_SEMANTIC(word) == VERB_SEMANTIC_GROUPS[CHOOSE g \in semantic_groups(word) : TRUE].tag

\* '[副词]', '[形容词]' and '[数词]'
PLACEHOLDER_ADVERB == <<91, 21103, 35789, 93>>
PLACEHOLDER_ADJECTIVE == <<91, 24418, 23481, 35789, 93>>
PLACEHOLDER_NUMERAL == <<91, 25968, 35789, 93>>

\* what the loop over pseg.cut(sentence) appends for one (word, flag)
tagged_item(word, flag) ==
    IF startswith(flag, <<110>>) THEN PLACEHOLDER_NOUN
    ELSE IF flag = <<114>> THEN PLACEHOLDER_PRONOUN
    ELSE IF startswith(flag, <<118>>)
    THEN IF semantic_groups(word) # {} THEN VERB_TO_SEMANTIC(word) ELSE word
    ELSE IF flag = <<100>> THEN PLACEHOLDER_ADVERB
    ELSE IF startswith(flag, <<97>>) THEN PLACEHOLDER_ADJECTIVE
    ELSE IF flag = <<109>> THEN PLACEHOLDER_NUMERAL
    ELSE word

\* the merge loop: prev is <<>> for None, else the one item last appended
RECURSIVE merge_placeholders(_, _, _)
merge_placeholders(result, prev, merged) ==
    IF result = <<>> THEN merged
    ELSE IF startswith(Head(result), <<91>>) /\ prev = <<Head(result)>>
    THEN merge_placeholders(Tail(result), prev, merged)
    ELSE merge_placeholders(Tail(result), <<Head(result)>>, Append(merged, Head(result)))

\* _extract_template_with_jieba_impl with the tagger available, on the (word, flag)
\* pairs that pseg.cut(sentence) yields
extract_template_with_jieba_impl(words) ==
    join(merge_placeholders([k \in 1..Len(words) |-> tagged_item(words[k][1], words[k][2])],
                            <<>>, <<>>))

(***************************************************************************)
(* Opening classification and per-chapter emotion statistics               *)
(***************************************************************************)

analyze_opening_type(sentence) ==
    IF \E marker \in OPENING_KEYWORDS_dialogue : startswith(strip(sentence), marker)
    THEN "dialogue"
    ELSE IF \E keyword \in OPENING_KEYWORDS_time : Contains(Prefix(sentence, 20), keyword)
    THEN "time"
    ELSE IF \E keyword \in OPENING_KEYWORDS_weather : Contains(Prefix(sentence, 30), keyword)
    THEN "weather"
    ELSE IF \E keyword \in OPENING_KEYWORDS_action : Contains(Prefix(sentence, 15), keyword)
    THEN "action"
    ELSE "other"

EMOTION_EXPRESSIONS(emotion) ==
    CASE emotion = "happy" -> EMOTION_EXPRESSIONS_happy
      [] emotion = "sad" -> EMOTION_EXPRESSIONS_sad
      [] emotion = "angry" -> EMOTION_EXPRESSIONS_angry
      [] emotion = "fear" -> EMOTION_EXPRESSIONS_fear
      [] emotion = "surprise" -> EMOTION_EXPRESSIONS_surprise

\* the found_expressions list of one category: {"expr", "count"} for every catalog
\* expression that occurs in the content, in catalog order
found_expressions(content, emotion) ==
    LET exprs == EMOTION_EXPRESSIONS(emotion)
        all == [k \in 1..Len(exprs) |-> [expr |-> exprs[k], count |-> str_count(content, exprs[k])]]
        Found(e) == e.count > 0
    IN  SelectSeq(all, Found)

RECURSIVE SumCounts(_)
SumCounts(entries) ==
    IF entries = <<>> THEN 0 ELSE Head(entries).count + SumCounts(Tail(entries))

\* the emotion_stats dict of analyze_single_chapter: only categories with count > 0
chapter_emotion_stats(content) ==
    LET found == [k \in 1..Len(EMOTIONS) |-> found_expressions(content, EMOTIONS[k])]
        present == {k \in 1..Len(EMOTIONS) : found[k] # <<>>}
    IN  [emotion \in {EMOTIONS[k] : k \in present} |->
            LET k == CHOOSE j \in present : EMOTIONS[j] = emotion
            IN  [total |-> SumCounts(found[k]), expressions |-> found[k]]]

(***************************************************************************)
(* Per-chapter analysis and content fingerprint                            *)
(***************************************************************************)

\* the dict no category of which is present
EmptyDict == [emotion \in {} |-> 0]

chapter_templates(sentences) ==
    LET template_strs == extract_templates_batch(sentences)
    IN  [k \in 1..Len(sentences) |->
            [text |-> sentences[k],
             template |-> template_strs[k],
             position |-> k - 1,
             is_opening |-> (k - 1) < 3,
             is_ending |-> IF Len(sentences) > 3 THEN (k - 1) >= Len(sentences) - 3 ELSE FALSE]]

analyze_single_chapter(chapter_id, chapter_number, content) ==
    IF content = <<>>
    THEN [chapter_id |-> chapter_id, chapter_number |-> chapter_number,
          templates |-> <<>>, sentence_count |-> 0,
          opening_type |-> None, emotion_stats |-> EmptyDict]
    ELSE LET sentences == split_sentences(content)
         IN  [chapter_id |-> chapter_id, chapter_number |-> chapter_number,
              templates |-> chapter_templates(sentences),
              sentence_count |-> Len(sentences),
              opening_type |-> IF sentences # <<>>
                               THEN analyze_opening_type(sentences[1]) ELSE None,
              emotion_stats |-> chapter_emotion_stats(content)]

\* hashlib.md5(content.encode('utf-8')).hexdigest(): a fixed-width digest of the
\* content, here a polynomial digest of the code points
\* h is the digest of the characters read so far, a natural number
RECURSIVE digest(_, _)
digest(content, h) ==
    IF content = <<>> \/ h < 0 THEN h
    ELSE digest(Tail(content), (h * 257 + Head(content)) % 1000003)

compute_content_hash(content) == digest(content, Len(content) + 1)

(***************************************************************************)
(* Clusterer                                                               *)
(***************************************************************************)

Min3(a, b, c) == Min(a, Min(b, c))

\* one row of the edit-distance table: curr_row for character c1 of t1, where
\* curr holds the entries built so far (curr_row[0] = i + 1 first); the row is
\* complete when it has an entry for every character of t2
RECURSIVE edit_row(_, _, _, _, _)
edit_row(prev_row, c1, t2, j, curr) ==
    IF Len(curr) = Len(t2) + 1 THEN curr
    ELSE LET insertions == prev_row[j + 1] + 1
             deletions == curr[j] + 1
             substitutions == prev_row[j] + (IF c1 = t2[j] THEN 0 ELSE 1)
         IN  edit_row(prev_row, c1, t2, j + 1,
                      Append(curr, Min3(insertions, deletions, substitutions)))

\* the outer loop from character i of t1 on; prev_row is a complete row, with an
\* entry for every prefix of t2
RECURSIVE edit_rows(_, _, _, _)
edit_rows(t1, t2, i, prev_row) ==
    IF i > Len(t1) \/ Len(prev_row) # Len(t2) + 1 THEN prev_row
    ELSE edit_rows(t1, t2, i + 1, edit_row(prev_row, t1[i], t2, 1, <<i>>))

\* distance = prev_row[-1] after the loops (t1 the shorter string)
edit_distance(t1, t2) ==
    LET a == IF Len(t1) > Len(t2) THEN t2 ELSE t1
        b == IF Len(t1) > Len(t2) THEN t1 ELSE t2
    IN  edit_rows(a, b, 1, [k \in 1..(Len(b) + 1) |-> k - 1])[Len(b) + 1]

\* template_similarity as the fraction <<numerator, denominator>>
template_similarity(t1, t2) ==
    IF t1 = t2 THEN <<1, 1>>
    ELSE IF Len(t1) = 0 \/ Len(t2) = 0 THEN <<0, 1>>
    ELSE IF 2 * (Max(Len(t1), Len(t2)) - Min(Len(t1), Len(t2))) > Max(Len(t1), Len(t2))
    THEN <<0, 1>>
    ELSE <<Max(Len(t1), Len(t2)) - edit_distance(t1, t2), Max(Len(t1), Len(t2))>>

\* a threshold of 0.6
THRESHOLD_LOW == <<6, 10>>

\* the default threshold 0.7 as a fraction; sim >= threshold
THRESHOLD == <<7, 10>>
AtLeast(sim, threshold) == sim[1] * threshold[2] >= threshold[1] * sim[2]

\* find(x) of the union-find array merged_into (indices from 1)
RECURSIVE find(_, _)
find(merged_into, x) == IF merged_into[x] # x THEN find(merged_into, merged_into[x]) ELSE x

\* union(x, y): merged_into[find(x)] = find(y)
union(merged_into, x, y) ==
    LET rx == find(merged_into, x)
        ry == find(merged_into, y)
    IN  IF rx # ry THEN [merged_into EXCEPT ![rx] = ry] ELSE merged_into

\* abs(len(rep_i) - len(rep_j)) > max(len(rep_i), len(rep_j)) * 0.4
LengthsTooFar(rep_i, rep_j) ==
    5 * (Max(Len(rep_i), Len(rep_j)) - Min(Len(rep_i), Len(rep_j)))
        > 2 * Max(Len(rep_i), Len(rep_j))

\* the double loop over i < j of _merge_similar_clusters, from the pair (i, j)
RECURSIVE merge_pairs(_, _, _, _, _)
merge_pairs(clusters, threshold, i, j, merged_into) ==
    IF i > Len(clusters) THEN merged_into
    ELSE IF j > Len(clusters) THEN merge_pairs(clusters, threshold, i + 1, i + 2, merged_into)
    ELSE LET rep_i == clusters[i].representative
             rep_j == clusters[j].representative
         IN  IF LengthsTooFar(rep_i, rep_j)
             THEN merge_pairs(clusters, threshold, i, j + 1, merged_into)
             ELSE IF AtLeast(template_similarity(rep_i, rep_j), threshold)
             THEN merge_pairs(clusters, threshold, i, j + 1, union(merged_into, i, j))
             ELSE merge_pairs(clusters, threshold, i, j + 1, merged_into)

\* the concatenation of the items of the clusters whose root is root, in index order
RECURSIVE items_of_root(_, _, _, _)
items_of_root(clusters, merged_into, root, i) ==
    IF i > Len(clusters) THEN <<>>
    ELSE (IF find(merged_into, i) = root THEN clusters[i].items ELSE <<>>)
         \o items_of_root(clusters, merged_into, root, i + 1)

merge_similar_clusters(clusters, threshold) ==
    IF Len(clusters) <= 1 THEN clusters
    ELSE LET merged_into == merge_pairs(clusters, threshold, 1, 2,
                                        [k \in 1..Len(clusters) |-> k])
             \* the first index of every root, in index order: the dict's key order
             IsFirst(i) == \A k \in 1..(i - 1) : find(merged_into, k) # find(merged_into, i)
             firsts == SelectSeq([k \in 1..Len(clusters) |-> k], IsFirst)
         IN  [g \in 1..Len(firsts) |->
                [representative |-> clusters[firsts[g]].representative,
                 items |-> items_of_root(clusters, merged_into,
                                         find(merged_into, firsts[g]), 1)]]

\* the order of a stable sort by descending length on <<index, list>> pairs: the longer
\* list first, of two lists of one length the earlier one
LongerOrEarlier(a, b) == Len(a[2]) > Len(b[2]) \/ (Len(a[2]) = Len(b[2]) /\ a[1] < b[1])

indexed(lists) == [i \in 1..Len(lists) |-> <<i, lists[i]>>]

\* list.sort(key=len, reverse=True): stable, longest first
sort_by_len_desc(lists) ==
    [place \in 1..Len(lists) |-> SortSeq(indexed(lists), LongerOrEarlier)[place][2]]

\* the number of exact clusters up to which the fuzzy merge runs
MAX_CLUSTERS_FOR_MERGE == 50

\* phase 1 without the test len(items) >= 2: every exact bucket
exact_cluster_list_with_singletons(valid_templates) ==
    LET n == Len(valid_templates)
        IsFirst(i) == \A k \in 1..(i - 1) : valid_templates[k].template # valid_templates[i].template
        firsts == SelectSeq([k \in 1..n |-> k], IsFirst)
        bucket(i) == LET Same(item) == item.template = valid_templates[i].template
                     IN  SelectSeq(valid_templates, Same)
    IN  [g \in 1..Len(firsts) |->
           [representative |-> valid_templates[firsts[g]].template,
            items |-> bucket(firsts[g])]]

\* phase 1: the exact buckets with >= 2 items, in order of first occurrence
exact_cluster_list(valid_templates) ==
    LET n == Len(valid_templates)
        IsFirst(i) == \A k \in 1..(i - 1) : valid_templates[k].template # valid_templates[i].template
        firsts == SelectSeq([k \in 1..n |-> k], IsFirst)
        bucket(i) == LET Same(item) == item.template = valid_templates[i].template
                     IN  SelectSeq(valid_templates, Same)
        all == [g \in 1..Len(firsts) |->
                  [representative |-> valid_templates[firsts[g]].template,
                   items |-> bucket(firsts[g])]]
        Repeated(c) == Len(c.items) >= 2
    IN  SelectSeq(all, Repeated)

cluster_templates_similar(templates, threshold) ==
    LET LongEnough(t) == Len(t.template) > 5
        valid_templates == SelectSeq(templates, LongEnough)
        cluster_list == exact_cluster_list(valid_templates)
    IN  IF templates = <<>> \/ valid_templates = <<>> THEN <<>>
        ELSE IF Len(cluster_list) <= MAX_CLUSTERS_FOR_MERGE
        THEN LET merged == merge_similar_clusters(cluster_list, threshold)
                 Repeated(c) == Len(c.items) >= 2
                 kept == SelectSeq(merged, Repeated)
             IN  sort_by_len_desc([g \in 1..Len(kept) |-> kept[g].items])
        ELSE sort_by_len_desc([g \in 1..Len(cluster_list) |-> cluster_list[g].items])

cluster_templates(templates) == cluster_templates_similar(templates, THRESHOLD)

(***************************************************************************)
(* Counters (collections.Counter as the list of its items in insertion     *)
(* order) and stable sorts                                                 *)
(***************************************************************************)

\* the counter after counting key once more (by more than zero)
RECURSIVE counter_add(_, _, _)
counter_add(counter, key, by) ==
    IF counter = <<>> THEN <<[key |-> key, count |-> by]>>
    ELSE IF Head(counter).key = key
    THEN <<[key |-> key, count |-> Head(counter).count + by]>> \o Tail(counter)
    ELSE <<Head(counter)>> \o counter_add(Tail(counter), key, by)

\* Counter(keys)
RECURSIVE counter_of(_)
counter_of(keys) ==
    IF keys = <<>> THEN <<>>
    ELSE counter_add(counter_of(SubSeq(keys, 1, Len(keys) - 1)), keys[Len(keys)], 1)

RECURSIVE insert_by_count(_, _)
insert_by_count(sorted, x) ==
    IF sorted = <<>> THEN <<x>>
    ELSE IF Head(sorted).count >= x.count THEN <<Head(sorted)>> \o insert_by_count(Tail(sorted), x)
    ELSE <<x>> \o sorted

\* sorted(items, key=count, reverse=True): stable, largest count first
RECURSIVE sort_by_count_desc(_)
sort_by_count_desc(items) ==
    IF items = <<>> THEN <<>>
    ELSE insert_by_count(sort_by_count_desc(SubSeq(items, 1, Len(items) - 1)), items[Len(items)])

\* counter.most_common(n)
most_common(counter, n) == Prefix(sort_by_count_desc(counter), n)

RECURSIVE counter_total(_)
counter_total(counter) ==
    IF counter = <<>> THEN 0 ELSE Head(counter).count + counter_total(Tail(counter))

\* sorted(set(numbers))
RECURSIVE sorted_set(_)
sorted_set(numbers) ==
    IF numbers = {} THEN <<>>
    ELSE LET least == CHOOSE x \in numbers : \A y \in numbers : x <= y
         IN  <<least>> \o sorted_set(numbers \ {least})

\* str(n) for n >= 0
RECURSIVE str_int(_)
str_int(n) == IF n < 10 THEN <<48 + n>> ELSE str_int(n \div 10) \o <<48 + (n % 10)>>

\* the odd k for which round(k / 200, 2) goes up: the double nearest to k / 200 lies above
\* the tie, or is the tie itself and the upper hundredth is even
FLOAT_TIES_UP ==
    {1, 5, 7, 11, 13, 17, 19, 23, 27, 33, 39, 45, 51, 53, 55, 63, 65, 67, 75, 77, 79, 81,
     89, 91, 93, 101, 103, 105, 107, 109, 111, 127, 129, 131, 133, 135, 137, 151, 153,
     155, 157, 159, 161, 175, 177, 179, 181, 183, 185, 187}

\* round(p / q, 2) in hundredths, for 0 <= p <= q <= 200: the nearest hundredth, and at a
\* tie of the fraction the hundredth that the double p / q rounds to
round2(p, q) ==
    LET fl == (100 * p) \div q
        rem2 == 2 * ((100 * p) % q)
    IN  IF rem2 > q THEN fl + 1
        ELSE IF rem2 < q THEN fl
        ELSE IF ((200 * p) \div q) \in FLOAT_TIES_UP THEN fl + 1 ELSE fl

(***************************************************************************)
(* Narrative tagger and n-gram miner                                       *)
(***************************************************************************)

\* 「 " ' ：
DIALOGUE_MARKERS == {<<12300>>, <<34>>, <<39>>, <<65306>>}
\* [视觉] [移动] [手动] [姿态] [头动]
ACTION_TAGS == {<<91, 35270, 35273, 93>>, <<91, 31227, 21160, 93>>, <<91, 25163, 21160, 93>>, <<91, 23039, 24577, 93>>, <<91, 22836, 21160, 93>>}
\* [情感] [表情] [言语] [思维]
TAG_EMOTION == <<91, 24773, 24863, 93>>
TAG_EXPRESSION == <<91, 34920, 24773, 93>>
TAG_SPEECH == <<91, 35328, 35821, 93>>
TAG_THOUGHT == <<91, 24605, 32500, 93>>


\* the tagger with the cognition placeholder looked at before the speech features
extract_sentence_type_thought_first(template) ==
    LET has_dialogue == \E marker \in DIALOGUE_MARKERS : Contains(template, marker)
        has_action == \E tag \in ACTION_TAGS : Contains(template, tag)
        has_emotion == Contains(template, TAG_EMOTION) \/ Contains(template, TAG_EXPRESSION)
        has_speech == Contains(template, TAG_SPEECH)
        has_thought == Contains(template, TAG_THOUGHT)
    IN  IF has_thought THEN "T"
        ELSE IF has_dialogue \/ has_speech THEN "D"
        ELSE IF has_emotion THEN "E"
        ELSE IF has_action THEN "A"
        ELSE "N"

extract_sentence_type(template) ==
    LET has_dialogue == \E marker \in DIALOGUE_MARKERS : Contains(template, marker)
        has_action == \E tag \in ACTION_TAGS : Contains(template, tag)
        has_emotion == Contains(template, TAG_EMOTION) \/ Contains(template, TAG_EXPRESSION)
        has_speech == Contains(template, TAG_SPEECH)
        has_thought == Contains(template, TAG_THOUGHT)
    IN  IF has_dialogue \/ has_speech THEN "D"
        ELSE IF has_thought THEN "T"
        ELSE IF has_emotion THEN "E"
        ELSE IF has_action THEN "A"
        ELSE "N"

RECURSIVE insert_by_position(_, _)
insert_by_position(sorted, x) ==
    IF sorted = <<>> THEN <<x>>
    ELSE IF Head(sorted).position <= x.position
    THEN <<Head(sorted)>> \o insert_by_position(Tail(sorted), x)
    ELSE <<x>> \o sorted

\* list.sort(key=position): stable, ascending
RECURSIVE sort_by_position(_)
sort_by_position(items) ==
    IF items = <<>> THEN <<>>
    ELSE insert_by_position(sort_by_position(SubSeq(items, 1, Len(items) - 1)),
                            items[Len(items)])

\* the n-grams of one chapter's templates (sorted by position)
chapter_ngrams(chapter_templates_, n) ==
    LET types == [k \in 1..Len(chapter_templates_) |->
                     extract_sentence_type(chapter_templates_[k].template)]
    IN  [i \in 1..(Len(types) - n + 1) |->
            [pattern |-> SubSeq(types, i, i + n - 1),
             chapter_id |-> chapter_templates_[1].chapter_id,
             chapter_number |-> chapter_templates_[1].chapter_number,
             start_position |-> i - 1,
             sentences |-> [k \in 1..n |-> chapter_templates_[i + k - 1].text]]]

RECURSIVE ngrams_of_chapters(_, _, _)
ngrams_of_chapters(templates, chapter_ids, n) ==
    IF chapter_ids = <<>> THEN <<>>
    ELSE LET InChapter(t) == t.chapter_id = Head(chapter_ids)
             chapter_templates_ == sort_by_position(SelectSeq(templates, InChapter))
         IN  (IF Len(chapter_templates_) < n THEN <<>>
              ELSE chapter_ngrams(chapter_templates_, n))
             \o ngrams_of_chapters(templates, Tail(chapter_ids), n)

\* extract_ngrams without the grouping by chapter: the whole list as one sequence
extract_ngrams_across_chapters(templates, n) ==
    IF Len(templates) < n THEN <<>> ELSE chapter_ngrams(templates, n)

\* the pattern of an n-gram is the tuple of its types ('→'.join(types) in the code)
extract_ngrams(templates, n) ==
    IF Len(templates) < n THEN <<>>
    ELSE LET IsFirst(i) == \A k \in 1..(i - 1) : templates[k].chapter_id # templates[i].chapter_id
             firsts == SelectSeq([k \in 1..Len(templates) |-> k], IsFirst)
         IN  ngrams_of_chapters(templates, [g \in 1..Len(firsts) |-> templates[firsts[g]].chapter_id], n)

\* type_names of _describe_ngram_pattern: 对话 思维 情感 动作 叙述
ngram_type_name(t) ==
    CASE t = "D" -> <<23545, 35805>>
      [] t = "T" -> <<24605, 32500>>
      [] t = "E" -> <<24773, 24863>>
      [] t = "A" -> <<21160, 20316>>
      [] t = "N" -> <<21465, 36848>>

\* ' → '.join(descriptions)
RECURSIVE describe_ngram_pattern(_)
describe_ngram_pattern(pattern) ==
    IF Len(pattern) = 1 THEN ngram_type_name(pattern[1])
    ELSE ngram_type_name(pattern[1]) \o <<32, 8594, 32>> \o describe_ngram_pattern(Tail(pattern))

\* the repetitive patterns of a list of n-grams: the most common 10 with count >= 3
repetitive_ngrams(ngrams) ==
    LET counter == counter_of([k \in 1..Len(ngrams) |-> ngrams[k].pattern])
        Frequent(e) == e.count >= 3
        top == SelectSeq(most_common(counter, 10), Frequent)
        examples(pattern) ==
            LET Is(ng) == ng.pattern = pattern
                ex == Prefix(SelectSeq(ngrams, Is), 3)
            IN  [k \in 1..Len(ex) |-> [chapter |-> ex[k].chapter_number,
                                        sentences |-> ex[k].sentences]]
    IN  [k \in 1..Len(top) |->
            [pattern |-> top[k].key,
             count |-> top[k].count,
             description |-> describe_ngram_pattern(top[k].key),
             examples |-> examples(top[k].key)]]

analyze_ngram_patterns(templates) ==
    LET bigrams == extract_ngrams(templates, 2)
        trigrams == extract_ngrams(templates, 3)
        total_bigrams == Len(bigrams)
        unique_bigrams == Len(counter_of([k \in 1..Len(bigrams) |-> bigrams[k].pattern]))
    IN  [bigram_patterns |-> repetitive_ngrams(bigrams),
         trigram_patterns |-> repetitive_ngrams(trigrams),
         total_bigrams |-> total_bigrams,
         unique_bigrams |-> unique_bigrams,
         \* min(100, int(diversity_ratio * 200))
         diversity_score |-> IF total_bigrams > 0
                             THEN Min(100, (200 * unique_bigrams) \div total_bigrams)
                             ELSE 100]

(***************************************************************************)
(* Opening analyzer                                                        *)
(***************************************************************************)

\* type_names of analyze_openings: 时间 天气/环境 对话 动作 其他
opening_type_name(t) ==
    CASE t = "time" -> <<26102, 38388>>
      [] t = "weather" -> <<22825, 27668, 47, 29615, 22659>>
      [] t = "dialogue" -> <<23545, 35805>>
      [] t = "action" -> <<21160, 20316>>
      [] t = "other" -> <<20854, 20182>>

\* opening["text"][:50] + "..." if len(opening["text"]) > 50 else opening["text"]
opening_example_text(text) == IF Len(text) > 50 THEN Prefix(text, 50) \o <<46, 46, 46>> ELSE text

analyze_openings(all_sentences) ==
    LET IsOpening(sent) == sent.position = 0
        openings == SelectSeq(all_sentences, IsOpening)
        types == [k \in 1..Len(openings) |-> analyze_opening_type(openings[k].text)]
        categories == counter_of(types)
        examples(t) ==
            LET idx == SelectSeq([k \in 1..Len(openings) |-> k], LAMBDA k : types[k] = t)
                first3 == Prefix(idx, 3)
            IN  [k \in 1..Len(first3) |->
                    [chapter |-> openings[first3[k]].chapter_number,
                     text |-> opening_example_text(openings[first3[k]].text)]]
        dominant == most_common(categories, 1)
        dominant_type == IF categories # <<>> THEN dominant[1].key ELSE "unknown"
        dominant_count == IF categories # <<>> THEN dominant[1].count ELSE 0
        \* dominant_ratio > 0.6 on the unrounded ratio dominant_count / len(openings)
        is_monotonous == categories # <<>> /\ 10 * dominant_count > 6 * Len(openings)
    IN  [total_chapters |-> Len(openings),
         categories |-> [t \in {categories[k].key : k \in 1..Len(categories)} |->
                            (CHOOSE e \in {categories[k] : k \in 1..Len(categories)} :
                                e.key = t).count],
         examples |-> [t \in {categories[k].key : k \in 1..Len(categories)} |-> examples(t)],
         dominant_type |-> dominant_type,
         dominant_count |-> dominant_count,
         \* round(dominant_ratio, 2), in hundredths
         dominant_ratio |-> IF categories # <<>> THEN round2(dominant_count, Len(openings)) ELSE 0,
         is_monotonous |-> is_monotonous,
         \* f"{int(dominant_ratio * 100)}%的章节以{type_name}开场，建议尝试更多样的开场方式"
         suggestion |-> IF is_monotonous
                        THEN str_int((100 * dominant_count) \div Len(openings))
                             \o <<37, 30340, 31456, 33410, 20197>> \o opening_type_name(dominant_type)
                             \o <<24320, 22330, 65292, 24314, 35758, 23581, 35797, 26356, 22810, 26679, 30340, 24320, 22330, 26041, 24335>>
                        ELSE <<>>]

(***************************************************************************)
(* Emotion vocabulary analyzer                                             *)
(***************************************************************************)

\* emotion_names: 开心 悲伤 愤怒 恐惧 惊讶
emotion_name(emotion) ==
    CASE emotion = "happy" -> <<24320, 24515>>
      [] emotion = "sad" -> <<24754, 20260>>
      [] emotion = "angry" -> <<24868, 24594>>
      [] emotion = "fear" -> <<24656, 24807>>
      [] emotion = "surprise" -> <<24778, 35766>>

\* count_emotion_expressions: per category the Counter of the expressions that occur
\* in '\n'.join(chapters_content), in catalog order
RECURSIVE join_lines(_)
join_lines(chapters_content) ==
    IF chapters_content = <<>> THEN <<>>
    ELSE IF Len(chapters_content) = 1 THEN chapters_content[1]
    ELSE chapters_content[1] \o <<10>> \o join_lines(Tail(chapters_content))

count_emotion_expressions(chapters_content) ==
    LET full_text == join_lines(chapters_content)
    IN  [k \in 1..Len(EMOTIONS) |->
            LET found == found_expressions(full_text, EMOTIONS[k])
            IN  [j \in 1..Len(found) |-> [key |-> found[j].expr, count |-> found[j].count]]]

\* the Counter of one category summed over the chapter analyses, in the order in which
\* the expressions are first met
RECURSIVE add_expressions(_, _)
add_expressions(counter, expressions) ==
    IF expressions = <<>> THEN counter
    ELSE add_expressions(counter_add(counter, Head(expressions).expr, Head(expressions).count),
                         Tail(expressions))

RECURSIVE sum_chapter_emotion(_, _, _)
sum_chapter_emotion(chapter_analyses, emotion, counter) ==
    IF chapter_analyses = <<>> THEN counter
    ELSE LET stats == Head(chapter_analyses).emotion_stats
         IN  sum_chapter_emotion(Tail(chapter_analyses), emotion,
                IF emotion \in DOMAIN stats
                THEN add_expressions(counter, stats[emotion].expressions)
                ELSE counter)

aggregated_emotion_counts(chapter_analyses) ==
    [k \in 1..Len(EMOTIONS) |-> sum_chapter_emotion(chapter_analyses, EMOTIONS[k], <<>>)]

\* result[emotion] of one non-empty Counter
emotion_entry(counter) ==
    LET expressions == most_common(counter, 10)
        total == counter_total(counter)
    IN  [expressions |-> expressions,
         total_count |-> total,
         unique_count |-> Len(counter),
         \* round(top_count / total, 2), in hundredths
         concentration |-> round2(expressions[1].count, total),
         top_expression |-> expressions[1].key,
         top_count |-> expressions[1].count]

\* the loop that finds the most concentrated category, over the categories present in
\* catalog order; returns <<most_concentrated, max_concentration>>
RECURSIVE most_concentrated_from(_, _, _, _)
most_concentrated_from(emotion_counts, k, most_concentrated, max_concentration) ==
    IF k > Len(EMOTIONS) THEN <<most_concentrated, max_concentration>>
    ELSE IF emotion_counts[k] # <<>>
            /\ emotion_entry(emotion_counts[k]).concentration > max_concentration
            /\ emotion_entry(emotion_counts[k]).total_count >= 5
    THEN most_concentrated_from(emotion_counts, k + 1, EMOTIONS[k],
                                emotion_entry(emotion_counts[k]).concentration)
    ELSE most_concentrated_from(emotion_counts, k + 1, most_concentrated, max_concentration)

RECURSIVE sum_over(_, _)
sum_over(numbers, k) == IF k > Len(numbers) THEN 0 ELSE numbers[k] + sum_over(numbers, k + 1)

\* the part analyze_emotion_diversity and aggregate_emotion_stats have in common: the
\* result built from the per-category Counters
emotion_diversity_of(emotion_counts) ==
    LET present == {k \in 1..Len(EMOTIONS) : emotion_counts[k] # <<>>}
        total_expressions == sum_over([k \in 1..Len(EMOTIONS) |->
                                          counter_total(emotion_counts[k])], 1)
        total_unique == sum_over([k \in 1..Len(EMOTIONS) |-> Len(emotion_counts[k])], 1)
        \* int(diversity_ratio * 200) + min(30, total_unique * 3), at most 100
        diversity_score ==
            IF total_expressions = 0 THEN 50
            ELSE IF total_expressions < 10 THEN 60
            ELSE Min(100, ((200 * total_unique) \div total_expressions)
                          + Min(30, total_unique * 3))
        found == most_concentrated_from(emotion_counts, 1, None, 0)
        most_concentrated == found[1]
        max_concentration == found[2]
    IN  [emotions |-> [emotion \in {EMOTIONS[k] : k \in present} |->
                          emotion_entry(emotion_counts[CHOOSE k \in present :
                                                          EMOTIONS[k] = emotion])],
         diversity_score |-> diversity_score,
         total_expressions |-> total_expressions,
         total_unique |-> total_unique,
         most_concentrated_emotion |-> most_concentrated,
         \* f"表达「{name}」时，{int(max_concentration * 100)}%使用「{top_expr}」，建议扩展情感表达词汇"
         suggestion |->
            IF most_concentrated # None /\ max_concentration > 70
            THEN <<34920, 36798, 12300>> \o emotion_name(most_concentrated) \o <<12301, 26102, 65292>>
                 \o str_int(max_concentration) \o <<37, 20351, 29992, 12300>>
                 \o emotion_entry(emotion_counts[CHOOSE k \in present :
                        EMOTIONS[k] = most_concentrated]).top_expression
                 \o <<12301, 65292, 24314, 35758, 25193, 23637, 24773, 24863, 34920, 36798, 35789, 27719>>
            ELSE <<>>]

analyze_emotion_diversity(chapters_content) ==
    emotion_diversity_of(count_emotion_expressions(chapters_content))

aggregate_emotion_stats(chapter_analyses) ==
    emotion_diversity_of(aggregated_emotion_counts(chapter_analyses))

(***************************************************************************)
(* Repetition patterns, score aggregator, level and suggestions            *)
(***************************************************************************)

\* the patterns list: one entry per cluster of >= 3 items, sorted by count (stable)
find_patterns(clusters) ==
    LET Big(cluster) == Len(cluster) >= 3
        big == SelectSeq(clusters, Big)
        entry(cluster) ==
            [template |-> cluster[1].template,
             count |-> Len(cluster),
             examples |-> [k \in 1..Min(5, Len(cluster)) |-> cluster[k].text],
             chapters |-> sorted_set({cluster[k].chapter_number : k \in 1..Len(cluster)}),
             is_opening_pattern |-> \A k \in 1..Len(cluster) : cluster[k].is_opening,
             is_ending_pattern |-> \A k \in 1..Len(cluster) : cluster[k].is_ending]
    IN  sort_by_count_desc([k \in 1..Len(big) |-> entry(big[k])])

\* the deduction of one pattern by repeat_ratio = count / max(chapter_count, 1)
pattern_deduction(count, chapter_count) ==
    LET d == Max(chapter_count, 1)
    IN  IF 10 * count > 5 * d THEN 5
        ELSE IF 10 * count > 3 * d THEN 3
        ELSE IF 10 * count > 2 * d THEN 2
        ELSE 1

RECURSIVE pattern_penalty(_, _)
pattern_penalty(patterns, chapter_count) ==
    IF patterns = <<>> THEN 0
    ELSE pattern_deduction(Head(patterns).count, chapter_count)
         + pattern_penalty(Tail(patterns), chapter_count)

\* the penalty of the first ten patterns without the cap
pattern_repetition_deduction_uncapped(patterns, chapter_count) ==
    pattern_penalty(Prefix(patterns, 10), chapter_count)

\* min(30, pattern_penalty) over patterns[:10]
pattern_repetition_deduction(patterns, chapter_count) ==
    Min(30, pattern_penalty(Prefix(patterns, 10), chapter_count))

\* dominant_ratio is the rounded ratio of the opening analysis, in hundredths
opening_deduction(opening_analysis) ==
    IF opening_analysis.is_monotonous
    THEN IF opening_analysis.dominant_ratio > 80 THEN 20
         ELSE IF opening_analysis.dominant_ratio > 60 THEN 12
         ELSE 6
    ELSE 0

emotion_deduction(emotion_diversity) ==
    IF emotion_diversity.diversity_score < 40 THEN 20
    ELSE IF emotion_diversity.diversity_score < 60 THEN 12
    ELSE IF emotion_diversity.diversity_score < 80 THEN 6
    ELSE 0

ngram_deduction(ngram_analysis) ==
    LET ngram_diversity == ngram_analysis.diversity_score
        bigram_count == Len(ngram_analysis.bigram_patterns)
        trigram_count == Len(ngram_analysis.trigram_patterns)
    IN  (IF ngram_diversity < 30 THEN 15
         ELSE IF ngram_diversity < 50 THEN 10
         ELSE IF ngram_diversity < 70 THEN 5 ELSE 0)
        + (IF bigram_count > 5 THEN 8
           ELSE IF bigram_count > 3 THEN 5
           ELSE IF bigram_count > 1 THEN 2 ELSE 0)
        + (IF trigram_count > 3 THEN 7
           ELSE IF trigram_count > 1 THEN 3 ELSE 0)

\* calculate_pattern_score that leaves the opening deduction out
calculate_pattern_score_without_opening(patterns, opening_analysis, emotion_diversity, chapter_count, ngram_analysis) ==
    Max(0, Min(100, 100 - pattern_repetition_deduction(patterns, chapter_count)
                        - emotion_deduction(emotion_diversity)
                        - ngram_deduction(ngram_analysis)))

calculate_pattern_score(patterns, opening_analysis, emotion_diversity, chapter_count, ngram_analysis) ==
    LET score == 100
                 - pattern_repetition_deduction(patterns, chapter_count)
                 - opening_deduction(opening_analysis)
                 - emotion_deduction(emotion_diversity)
                 - ngram_deduction(ngram_analysis)
    IN  Max(0, Min(100, score))

\* 多样丰富 / 较为多样 / 套路化明显 / 高度套路化
get_pattern_level(score) ==
    IF score >= 80 THEN <<22810, 26679, 20016, 23500>>
    ELSE IF score >= 60 THEN <<36739, 20026, 22810, 26679>>
    ELSE IF score >= 40 THEN <<22871, 36335, 21270, 26126, 26174>>
    ELSE <<39640, 24230, 22871, 36335, 21270>>

\* f"「{template}」出现{count}次，建议使用更多样的表达方式", template cut to 30 + "..."
pattern_suggestion(pattern) ==
    <<12300>> \o (IF Len(pattern.template) > 30
              THEN Prefix(pattern.template, 30) \o <<46, 46, 46>>
              ELSE pattern.template)
    \o <<12301, 20986, 29616>> \o str_int(pattern.count) \o <<27425, 65292, 24314, 35758, 20351, 29992, 26356, 22810, 26679, 30340, 34920, 36798, 26041, 24335>>

\* f"叙事模式「{description}」出现{count}次，尝试打破固定的句式节奏"
bigram_suggestion(bp) ==
    <<21465, 20107, 27169, 24335, 12300>> \o bp.description \o <<12301, 20986, 29616>> \o str_int(bp.count)
    \o <<27425, 65292, 23581, 35797, 25171, 30772, 22266, 23450, 30340, 21477, 24335, 33410, 22863>>

\* f"三句式模式「{description}」频繁出现，建议增加叙事结构变化"
trigram_suggestion(tp) == <<19977, 21477, 24335, 27169, 24335, 12300>> \o tp.description \o <<12301, 39057, 32321, 20986, 29616, 65292, 24314, 35758, 22686, 21152, 21465, 20107, 32467, 26500, 21464, 21270>>

\* "叙事节奏较为单一，建议穿插不同类型的句子组合"
RHYTHM_SUGGESTION == <<21465, 20107, 33410, 22863, 36739, 20026, 21333, 19968, 65292, 24314, 35758, 31359, 25554, 19981, 21516, 31867, 22411, 30340, 21477, 23376, 32452, 21512>>

generate_pattern_suggestions(patterns, opening_analysis, emotion_diversity, ngram_analysis) ==
    LET top5 == SelectSeq(Prefix(patterns, 5), LAMBDA pt : pt.count >= 5)
        bps == SelectSeq(Prefix(ngram_analysis.bigram_patterns, 3), LAMBDA bp : bp.count >= 5)
        tps == SelectSeq(Prefix(ngram_analysis.trigram_patterns, 2), LAMBDA tp : tp.count >= 4)
    IN  [k \in 1..Len(top5) |-> pattern_suggestion(top5[k])]
        \o (IF opening_analysis.suggestion # <<>> THEN <<opening_analysis.suggestion>> ELSE <<>>)
        \o (IF emotion_diversity.suggestion # <<>> THEN <<emotion_diversity.suggestion>> ELSE <<>>)
        \o [k \in 1..Len(bps) |-> bigram_suggestion(bps[k])]
        \o [k \in 1..Len(tps) |-> trigram_suggestion(tps[k])]
        \o (IF ngram_analysis.diversity_score < 40 THEN <<RHYTHM_SUGGESTION>> ELSE <<>>)

(***************************************************************************)
(* Chapter texts of the modelled projects                                  *)
(***************************************************************************)

\* ""
TEXT_EMPTY == <<>>

\* "他走进了房间。他走进了房间。他走进了房间。"
TEXT_ROOM ==
    <<20182, 36208, 36827, 20102, 25151, 38388, 12290, 20182, 36208, 36827, 20102, 25151,
      38388, 12290, 20182, 36208, 36827, 20102, 25151, 38388, 12290>>

\* "清晨她笑了笑说好。"
TEXT_MORNING ==
    <<28165, 26216, 22905, 31505, 20102, 31505, 35828, 22909, 12290>>

TextPool == {TEXT_EMPTY, TEXT_ROOM, TEXT_MORNING}

(***************************************************************************)
(* State                                                                   *)
(***************************************************************************)

\* the largest number of chapters of the modelled project
MaxChapters == 2

\* the largest number of chapter edits in one behaviour
MaxEdits == 2

\* min_chapters as the callers pass it: the default and a smaller one
DEFAULT_MIN_CHAPTERS == 5
MinChaptersChoices == {2, DEFAULT_MIN_CHAPTERS}

\* the version of the release that wrote the older rows, and ANALYSIS_VERSION = "2.0"
Versions == <<"1.0", "2.0">>

PROJECT_ID == "p1"

VARIABLES
    chapters,           \* the project's chapters in chapter_number order: chapter c
                        \* (id c, number c) has content chapters[c]
    ANALYSIS_VERSION,   \* the version of the running release
    cache_table,        \* committed rows of chapter_pattern_cache
    analysis_table,     \* committed rows of project_pattern_analysis
    db_cache,           \* chapter_pattern_cache as the run's session sees it
    db_analysis,        \* project_pattern_analysis as the run's session sees it
    run,                \* the analysis in progress: its arguments, locals and outcome
    baseline,           \* history: what happened since the last successful incremental run
    edits,              \* history: the number of chapter edits so far
    template_items,     \* the list of template items handed to one clustering call
    repeated_templates, \* how many distinct repeated templates lead template_items
    clustered,          \* what that clustering call returned (<<>> before the call)
    analysed,           \* one call of an analysis on the corpus chapters: its kind, the
                        \* templates and n-grams it built, and what it returned
    template_cache,     \* the memo of extract_template_cached: its entries from the least
                        \* to the most recently used, and its counters
    workers,            \* the callers of extract_template_cached: where each is in its call
    sessions            \* the storage sessions of two analyses running at the same time

\* the state of the analysis runs, and the state of a clustering call on its own
analysis_vars == <<chapters, ANALYSIS_VERSION, cache_table, analysis_table, db_cache,
                   db_analysis, run, baseline, edits>>
clustering_vars == <<template_items, repeated_templates, clustered>>

\* the state of the template memo and its callers, and all that only the analyses of
\* the template memo and of two runs at the same time use
memo_vars == <<template_cache, workers>>
other_vars == <<memo_vars, sessions>>

vars == <<analysis_vars, clustering_vars, analysed, other_vars>>

NoResult == [status |-> "none"]

IdleRun ==
    [pc |-> "idle", kind |-> "none", min_chapters |-> 0, force_refresh |-> FALSE,
     i |-> 0, chapter_analyses |-> <<>>, cached_chapters |-> {}, refreshed_chapters |-> {},
     analysis_result |-> NoResult, result |-> NoResult, error |-> "none",
     failed_chapter |-> 0]

\* valid: an incremental run has succeeded and neither the release, nor the cache rows,
\* nor the stored result were touched by anything else since; edited: the chapters
\* edited since; served: that run took every chapter from the cache; cleared: the last
\* thing that ended the baseline was clear_project_pattern_cache
NoBaseline == [valid |-> FALSE, edited |-> <<>>, served |-> FALSE, cleared |-> FALSE]

\* no analysis of the corpus was called
NotAnalysed == [kind |-> "none"]

\* the memo right after the module is loaded, or after cache_clear(): no entry, the
\* counters at 0; calls (history) is the sentences of the calls since then, in order,
\* returned (history) is what the last call was asked and what it returned
EmptyTemplateCache == [links |-> <<>>, hits |-> 0, misses |-> 0, calls |-> <<>>, returned |-> <<>>]

\* nobody calls the memo, and no two analyses run at the same time
OthersIdle ==
    /\ template_cache = EmptyTemplateCache
    /\ workers = <<>>
    /\ sessions = <<>>

Init ==
    /\ chapters \in UNION {[1..n -> TextPool] : n \in 0..MaxChapters}
    /\ ANALYSIS_VERSION = Versions[1]
    /\ cache_table = {}
    /\ analysis_table = {}
    /\ db_cache = {}
    /\ db_analysis = {}
    /\ run = IdleRun
    /\ baseline = NoBaseline
    /\ edits = 0
    /\ template_items = <<>>
    /\ repeated_templates = 0
    /\ clustered = <<>>
    /\ analysed = NotAnalysed
    /\ OthersIdle

(***************************************************************************)
(* Storage: select / insert-or-update inside the session                   *)
(***************************************************************************)

\* select(ChapterPatternCache).where(chapter_id == id) ... .scalars().first()
cache_rows(db, chapter_id) == {row \in db : row.chapter_id = chapter_id}
first_cache_row(db, chapter_id) == CHOOSE row \in cache_rows(db, chapter_id) : TRUE


\* cache_is_valid without the comparison of the versions
cache_is_valid_any_version(db, chapter_id, content_hash, version) ==
    /\ cache_rows(db, chapter_id) # {}
    /\ first_cache_row(db, chapter_id).content_hash = content_hash

\* the condition under which a cache row is used
cache_is_valid(db, chapter_id, content_hash, version) ==
    /\ cache_rows(db, chapter_id) # {}
    /\ first_cache_row(db, chapter_id).content_hash = content_hash
    /\ first_cache_row(db, chapter_id).analysis_version = version


\* analysis_from_cache that leaves the stored emotion statistics out
analysis_from_cache_without_emotions(cache, chapter_id, chapter_number) ==
    [chapter_id |-> chapter_id, chapter_number |-> chapter_number,
     templates |-> cache.templates, sentence_count |-> cache.sentence_count,
     opening_type |-> cache.opening_type, emotion_stats |-> EmptyDict]

\* the chapter analysis a valid cache row yields
analysis_from_cache(cache, chapter_id, chapter_number) ==
    [chapter_id |-> chapter_id, chapter_number |-> chapter_number,
     templates |-> cache.templates, sentence_count |-> cache.sentence_count,
     opening_type |-> cache.opening_type, emotion_stats |-> cache.emotion_stats]

\* cache_row that stamps the row with the version of the older release
cache_row_with_old_version(chapter_id, chapter_number, content_hash, analysis, version) ==
    [project_id |-> PROJECT_ID, chapter_id |-> chapter_id, chapter_number |-> chapter_number,
     content_hash |-> content_hash, templates |-> analysis.templates,
     sentence_count |-> analysis.sentence_count, opening_type |-> analysis.opening_type,
     emotion_stats |-> analysis.emotion_stats, analysis_version |-> Versions[1]]

cache_row(chapter_id, chapter_number, content_hash, analysis, version) ==
    [project_id |-> PROJECT_ID, chapter_id |-> chapter_id, chapter_number |-> chapter_number,
     content_hash |-> content_hash, templates |-> analysis.templates,
     sentence_count |-> analysis.sentence_count, opening_type |-> analysis.opening_type,
     emotion_stats |-> analysis.emotion_stats, analysis_version |-> version]


\* upsert_cache that replaces the project's rows instead of the chapter's row
upsert_cache_replacing_all(db, chapter_id, row) == {row}

\* the update-or-create at the end of get_or_create_chapter_cache
upsert_cache(db, chapter_id, row) ==
    IF cache_rows(db, chapter_id) # {}
    THEN (db \ {first_cache_row(db, chapter_id)}) \cup {row}
    ELSE db \cup {row}

\* get_or_create_chapter_cache: the analysis returned and the session afterwards
get_or_create_chapter_cache(db, chapter_id, chapter_number, content, force_refresh, version) ==
    LET content_hash == compute_content_hash(content)
    IN  IF ~force_refresh /\ cache_is_valid(db, chapter_id, content_hash, version)
        THEN [analysis |-> analysis_from_cache(first_cache_row(db, chapter_id),
                                               chapter_id, chapter_number),
              db |-> db]
        ELSE LET analysis == analyze_single_chapter(chapter_id, chapter_number, content)
             IN  [analysis |-> analysis,
                  db |-> upsert_cache(db, chapter_id,
                            cache_row(chapter_id, chapter_number, content_hash, analysis, version))]

\* the fields of an analysis result that are stored (and that make an AnalysisResult)
RESULT_FIELDS == {"score", "level", "chapters_analyzed", "patterns_found", "top_patterns",
                  "opening_analysis", "emotion_diversity", "ngram_analysis", "suggestions"}

stored_fields(result) == [f \in RESULT_FIELDS |-> result[f]]

\* save_pattern_analysis that adds a row whether or not the project has one
save_pattern_analysis_always_adding(db, project_id, result) ==
    db \cup {[project_id |-> project_id, fields |-> stored_fields(result),
              detection_version |-> "2.0"]}

\* save_pattern_analysis: update the project's row or add one
save_pattern_analysis(db, project_id, result) ==
    LET rows == {row \in db : row.project_id = project_id}
        row == [project_id |-> project_id, fields |-> stored_fields(result),
                detection_version |-> "2.0"]
    IN  IF rows # {} THEN (db \ {CHOOSE r \in rows : TRUE}) \cup {row} ELSE db \cup {row}


(***************************************************************************)
(* The two analyses                                                        *)
(***************************************************************************)

\* an insufficient-data result that reports the minimum as the current chapter count
insufficient_data_wrong_count(min_chapters, current_chapters) ==
    [status |-> "insufficient_data",
     message |-> <<38656, 35201, 33267, 23569>> \o str_int(min_chapters) \o <<20010, 31456, 33410, 25165, 33021, 36827, 34892, 22871, 36335, 21270, 20998, 26512>>,
     current_chapters |-> min_chapters]

\* f"需要至少{min_chapters}个章节才能进行套路化分析"
insufficient_data(min_chapters, current_chapters) ==
    [status |-> "insufficient_data",
     message |-> <<38656, 35201, 33267, 23569>> \o str_int(min_chapters) \o <<20010, 31456, 33410, 25165, 33021, 36827, 34892, 22871, 36335, 21270, 20998, 26512>>,
     current_chapters |-> current_chapters]

\* a no-content result that carries a score
no_content_scored ==
    [status |-> "no_content", message |-> <<31456, 33410, 20869, 23481, 20026, 31354>>,
     score |-> 0]

\* "章节内容为空"
no_content == [status |-> "no_content", message |-> <<31456, 33410, 20869, 23481, 20026, 31354>>]

\* step 3 of the incremental analysis: every template of every chapter analysis,
\* tagged with its chapter
RECURSIVE collect_templates(_)
collect_templates(chapter_analyses) ==
    IF chapter_analyses = <<>> THEN <<>>
    ELSE LET ca == Head(chapter_analyses)
         IN  [k \in 1..Len(ca.templates) |->
                [text |-> ca.templates[k].text,
                 template |-> ca.templates[k].template,
                 position |-> ca.templates[k].position,
                 is_opening |-> ca.templates[k].is_opening,
                 is_ending |-> ca.templates[k].is_ending,
                 chapter_id |-> ca.chapter_id,
                 chapter_number |-> ca.chapter_number]]
             \o collect_templates(Tail(chapter_analyses))

\* the sentence items of one chapter of analyze_project_patterns
sentence_items(sentences, c) ==
    [k \in 1..Len(sentences) |->
        [text |-> sentences[k],
         chapter_id |-> c,
         chapter_number |-> c,
         position |-> k - 1,
         is_opening |-> (k - 1) < 3,
         is_ending |-> IF Len(sentences) > 3 THEN (k - 1) >= Len(sentences) - 3 ELSE FALSE]]

\* step 11: the result dict
analysis_result_of(score, patterns, opening_analysis, emotion_diversity, chapter_count, ngram_analysis) ==
    [status |-> "success",
     score |-> score,
     level |-> get_pattern_level(score),
     chapters_analyzed |-> chapter_count,
     patterns_found |-> Len(patterns),
     top_patterns |-> Prefix(patterns, 10),
     opening_analysis |-> opening_analysis,
     emotion_diversity |-> emotion_diversity,
     ngram_analysis |-> ngram_analysis,
     suggestions |-> generate_pattern_suggestions(patterns, opening_analysis,
                                                  emotion_diversity, ngram_analysis)]

\* steps 9 to 11: the score from the parts, then the result
scored_result(patterns, opening_analysis, emotion_diversity, chapter_count, ngram_analysis) ==
    analysis_result_of(calculate_pattern_score(patterns, opening_analysis, emotion_diversity,
                                               chapter_count, ngram_analysis),
                       patterns, opening_analysis, emotion_diversity, chapter_count,
                       ngram_analysis)

\* steps 6 to 11, once the patterns of steps 4 and 5 are found
build_result_of(patterns, templates, emotion_diversity, chapter_count) ==
    scored_result(patterns, analyze_openings(templates), emotion_diversity, chapter_count,
                  analyze_ngram_patterns(templates))

\* steps 4 to 11, common to both analyses: the result built from the templates, the
\* emotion diversity and the chapter count len(chapters)
build_result(templates, emotion_diversity, chapter_count) ==
    build_result_of(find_patterns(cluster_templates(templates)), templates,
                    emotion_diversity, chapter_count)

\* the result of the incremental analysis: the common fields and incremental_stats
with_incremental_stats(built, cached_count, refreshed_count) ==
    [f \in RESULT_FIELDS \cup {"status", "incremental_stats"} |->
        IF f = "incremental_stats"
        THEN [cached_chapters |-> cached_count, refreshed_chapters |-> refreshed_count]
        ELSE built[f]]

\* steps 6 to 11 of analyze_project_patterns_incremental, from the templates of step 3
\* and the patterns of steps 4 and 5
incremental_result_of(chapter_analyses, templates, patterns, chapter_count, cached_count, refreshed_count) ==
    IF chapter_analyses = <<>> THEN no_content
    ELSE with_incremental_stats(
            build_result_of(patterns, templates, aggregate_emotion_stats(chapter_analyses),
                            chapter_count),
            cached_count, refreshed_count)

\* incremental_result that aggregates only as many of the first chapter analyses as
\* chapters were recomputed
incremental_result_partial(chapter_analyses, chapter_count, cached_count, refreshed_count) ==
    incremental_result_of(Prefix(chapter_analyses, refreshed_count),
                          collect_templates(Prefix(chapter_analyses, refreshed_count)),
                          find_patterns(cluster_templates(
                              collect_templates(Prefix(chapter_analyses, refreshed_count)))),
                          chapter_count, cached_count, refreshed_count)

\* analyze_project_patterns_incremental after its chapter loop
incremental_result(chapter_analyses, chapter_count, cached_count, refreshed_count) ==
    incremental_result_of(chapter_analyses, collect_templates(chapter_analyses),
                          find_patterns(cluster_templates(collect_templates(chapter_analyses))),
                          chapter_count, cached_count, refreshed_count)

\* step 2 of analyze_project_patterns: the sentences of the chapters with content
RECURSIVE full_sentences(_, _)
full_sentences(chapter_list, c) ==
    IF c > Len(chapter_list) THEN <<>>
    ELSE (IF chapter_list[c] = <<>> THEN <<>>
          ELSE sentence_items(split_sentences(chapter_list[c]), c))
         \o full_sentences(chapter_list, c + 1)

\* step 3 of analyze_project_patterns: the sentence items with their templates
full_templates(all_sentences, template_strs) ==
    [k \in 1..Len(all_sentences) |->
        [text |-> all_sentences[k].text,
         template |-> template_strs[k],
         position |-> all_sentences[k].position,
         is_opening |-> all_sentences[k].is_opening,
         is_ending |-> all_sentences[k].is_ending,
         chapter_id |-> all_sentences[k].chapter_id,
         chapter_number |-> all_sentences[k].chapter_number]]

sentence_texts(all_sentences) == [k \in 1..Len(all_sentences) |-> all_sentences[k].text]

HasContent(content) == content # <<>>

\* step 3 of analyze_project_patterns on the sentences of step 2
templates_of_sentences(all_sentences) ==
    full_templates(all_sentences, extract_templates_batch(sentence_texts(all_sentences)))

\* steps 6 to 11 of analyze_project_patterns, from the templates of step 3 and the
\* patterns of steps 4 and 5
full_result_of(all_sentences, templates, patterns, chapter_list) ==
    IF all_sentences = <<>> THEN no_content
    ELSE build_result_of(patterns, templates,
                         analyze_emotion_diversity(SelectSeq(chapter_list, HasContent)),
                         Len(chapter_list))

\* analyze_project_patterns after the sentences are collected
full_result(all_sentences, chapter_list) ==
    full_result_of(all_sentences, templates_of_sentences(all_sentences),
                   find_patterns(cluster_templates(templates_of_sentences(all_sentences))),
                   chapter_list)

analyze_project_patterns_result(chapter_list) ==
    full_result(full_sentences(chapter_list, 1), chapter_list)


(***************************************************************************)
(* Operations                                                              *)
(***************************************************************************)

Idle == run.pc = "idle"

\* the chapters with content, which the chapter loop does not skip
chapters_with_content == {c \in 1..Len(chapters) : chapters[c] # <<>>}

\* if len(chapters) < min_chapters
has_insufficient_data(current_chapters, min_chapters) == current_chapters < min_chapters

\* if not chapter.content: continue
skips_chapter(content) == content = <<>>

\* if not force_refresh: ... look the chapter's cache row up
\* a loop that looks for a valid cache entry even under force_refresh
consults_cache_always(force_refresh) == TRUE

consults_cache(force_refresh) == ~force_refresh

\* a commit that, when it fails, has already made the cache rows durable
commit_partial(committed, session, commit_fails) ==
    IF commit_fails THEN [cache |-> session.cache, analysis |-> committed.analysis] ELSE session

\* await db.commit(): the committed rows afterwards, for both tables at once
commit(committed, session, commit_fails) == IF commit_fails THEN committed ELSE session

\* The surrounding application rewrites the text of chapter c.
EditChapter(c, text) ==
    /\ Idle
    /\ edits < MaxEdits
    /\ c \in 1..Len(chapters)
    /\ text # chapters[c]
    /\ chapters' = [chapters EXCEPT ![c] = text]
    /\ edits' = edits + 1
    /\ baseline' = IF baseline.valid THEN [baseline EXCEPT !.edited = Append(@, c)]
                   ELSE baseline
    /\ UNCHANGED <<clustering_vars, analysed, other_vars, ANALYSIS_VERSION, cache_table, analysis_table, db_cache, db_analysis, run>>

\* A release with a new ANALYSIS_VERSION replaces the running one.
ReleaseNewVersion ==
    /\ Idle
    /\ ANALYSIS_VERSION = Versions[1]
    /\ ANALYSIS_VERSION' = Versions[2]
    /\ baseline' = NoBaseline
    /\ UNCHANGED <<clustering_vars, analysed, other_vars, chapters, cache_table, analysis_table, db_cache, db_analysis, run, edits>>

\* clear_project_pattern_cache: delete the project's cache rows and commit
clear_project_pattern_cache ==
    /\ Idle
    /\ cache_table # {}
    /\ cache_table' = {row \in cache_table : row.project_id # PROJECT_ID}
    /\ db_cache' = cache_table'
    /\ baseline' = [NoBaseline EXCEPT !.cleared = TRUE]
    /\ UNCHANGED <<clustering_vars, analysed, other_vars, chapters, ANALYSIS_VERSION, analysis_table, db_analysis, run, edits>>

\* Step 1 of either analysis: load the chapters; fewer than min_chapters ends the call.
StartAnalysis(kind, min_chapters, force_refresh) ==
    /\ Idle
    /\ db_cache' = cache_table
    /\ db_analysis' = analysis_table
    /\ run' = IF has_insufficient_data(Len(chapters), min_chapters)
              THEN [IdleRun EXCEPT !.pc = "done", !.kind = kind,
                                   !.min_chapters = min_chapters,
                                   !.force_refresh = force_refresh,
                                   !.result = insufficient_data(min_chapters, Len(chapters))]
              ELSE [IdleRun EXCEPT !.pc = "chapters", !.kind = kind,
                                   !.min_chapters = min_chapters,
                                   !.force_refresh = force_refresh,
                                   !.i = IF kind = "incremental" THEN 1 ELSE Len(chapters) + 1]
    /\ UNCHANGED <<clustering_vars, analysed, other_vars, chapters, ANALYSIS_VERSION, cache_table, analysis_table, baseline, edits>>

\* what is left of a call that raised: its locals are gone
Raised(error, failed_chapter) ==
    [IdleRun EXCEPT !.pc = "raised", !.kind = run.kind, !.min_chapters = run.min_chapters,
                    !.force_refresh = run.force_refresh, !.error = error,
                    !.failed_chapter = failed_chapter]

\* One pass of the chapter loop of the incremental analysis, for chapter run.i: skip an
\* empty chapter, use a valid cache row, or analyse the chapter and write its row.
\* The analysis of a chapter may raise, and nothing in the loop catches it.
ChapterStep(extraction_raises) ==
    /\ run.pc = "chapters"
    /\ run.kind = "incremental"
    /\ run.i <= Len(chapters)
    /\ LET c == run.i
           content == chapters[c]
           content_hash == compute_content_hash(content)
       IN  IF skips_chapter(content)
           THEN /\ ~extraction_raises
                /\ run' = [run EXCEPT !.i = c + 1]
                /\ UNCHANGED db_cache
           ELSE IF consults_cache(run.force_refresh)
                   /\ cache_is_valid(db_cache, c, content_hash, ANALYSIS_VERSION)
           THEN /\ ~extraction_raises
                /\ run' = [run EXCEPT
                            !.i = c + 1,
                            !.chapter_analyses =
                                Append(@, analysis_from_cache(first_cache_row(db_cache, c), c, c)),
                            !.cached_chapters = @ \cup {c}]
                /\ UNCHANGED db_cache
           ELSE IF extraction_raises
           THEN /\ run' = Raised("extraction", c)
                /\ UNCHANGED db_cache
           ELSE LET got == get_or_create_chapter_cache(db_cache, c, c, content, TRUE,
                                                       ANALYSIS_VERSION)
                IN  /\ run' = [run EXCEPT
                                !.i = c + 1,
                                !.chapter_analyses = Append(@, got.analysis),
                                !.refreshed_chapters = @ \cup {c}]
                    /\ db_cache' = got.db
    /\ UNCHANGED <<clustering_vars, analysed, other_vars, chapters, ANALYSIS_VERSION, cache_table, analysis_table, db_analysis,
                   baseline, edits>>

\* The end of the analysis once its result is built: a success is saved in the
\* session, anything else is returned as it is.
Built(result) ==
    IF result.status = "success"
    THEN /\ run' = [run EXCEPT !.pc = "commit", !.analysis_result = result]
         /\ db_analysis' = save_pattern_analysis(db_analysis, PROJECT_ID, result)
    ELSE /\ run' = [run EXCEPT !.pc = "done", !.i = 0, !.result = result]
         /\ UNCHANGED db_analysis

\* After the loop: aggregate, build the result and save it in the session; a run
\* without content returns at once.  The full analysis does its extraction here.
Aggregate(extraction_raises) ==
    /\ run.pc = "chapters"
    /\ run.i > Len(chapters)
    /\ IF extraction_raises
       THEN /\ run.kind = "full"
            /\ \E c \in chapters_with_content : run' = Raised("extraction", c)
            /\ UNCHANGED db_analysis
       ELSE Built(IF run.kind = "incremental"
                  THEN incremental_result(run.chapter_analyses, Len(chapters),
                                          Cardinality(run.cached_chapters),
                                          Cardinality(run.refreshed_chapters))
                  ELSE analyze_project_patterns_result(chapters))
    /\ UNCHANGED <<clustering_vars, analysed, other_vars, chapters, ANALYSIS_VERSION, cache_table, analysis_table, db_cache,
                   baseline, edits>>

\* await db.commit() and the return of the result.  A commit that fails raises.
Commit(commit_fails) ==
    /\ run.pc = "commit"
    /\ LET committed == commit([cache |-> cache_table, analysis |-> analysis_table],
                               [cache |-> db_cache, analysis |-> db_analysis], commit_fails)
       IN  /\ cache_table' = committed.cache
           /\ analysis_table' = committed.analysis
    /\ IF commit_fails
       THEN /\ run' = Raised("commit", 0)
            /\ UNCHANGED baseline
       ELSE /\ run' = [run EXCEPT !.pc = "done", !.i = 0, !.chapter_analyses = <<>>,
                                  !.analysis_result = NoResult,
                                  !.result = run.analysis_result]
            /\ baseline' = IF run.kind = "incremental"
                           THEN [valid |-> TRUE, edited |-> <<>>,
                                 served |-> run.refreshed_chapters = {},
                                 cleared |-> FALSE]
                           ELSE NoBaseline
    /\ UNCHANGED <<clustering_vars, analysed, other_vars, chapters, ANALYSIS_VERSION, db_cache, db_analysis, edits>>

\* The caller's deadline fires while the call is still running: the call is cancelled.
Deadline ==
    /\ run.pc \in {"chapters", "commit"}
    /\ run' = Raised("deadline", 0)
    /\ UNCHANGED <<clustering_vars, analysed, other_vars, chapters, ANALYSIS_VERSION, cache_table, analysis_table, db_cache,
                   db_analysis, baseline, edits>>

\* The call is over (returned or raised): the request's session is closed, which
\* discards what it had not committed.
EndRequest ==
    /\ run.pc \in {"done", "raised"}
    /\ run' = IdleRun
    /\ db_cache' = cache_table
    /\ db_analysis' = analysis_table
    /\ UNCHANGED <<clustering_vars, analysed, other_vars, chapters, ANALYSIS_VERSION, cache_table, analysis_table, baseline, edits>>

Next ==
    \/ \E c \in 1..MaxChapters, text \in TextPool : EditChapter(c, text)
    \/ ReleaseNewVersion
    \/ clear_project_pattern_cache
    \/ \E kind \in {"full", "incremental"}, min_chapters \in MinChaptersChoices,
          force_refresh \in BOOLEAN :
            /\ (kind = "full" => ~force_refresh)
            /\ StartAnalysis(kind, min_chapters, force_refresh)
    \/ \E extraction_raises \in BOOLEAN : ChapterStep(extraction_raises)
    \/ \E extraction_raises \in BOOLEAN : Aggregate(extraction_raises)
    \/ \E commit_fails \in BOOLEAN : Commit(commit_fails)
    \/ Deadline
    \/ EndRequest

Spec == Init /\ [][Next]_vars

(***************************************************************************)
(* One clustering call on a list of template items                         *)
(***************************************************************************)

\* the largest number of template items drawn one by one from TemplatePool
MaxItems == 4

\* "[名词]的": five characters, too short to be clustered
TEMPLATE_SHORT == <<91, 21517, 35789, 93, 30340>>
\* "[动词]的地": six characters
TEMPLATE_SIX == <<91, 21160, 35789, 93, 30340, 22320>>
\* "[代词]走进了[名词]" and "[代词]走出了[名词]": one character apart
TEMPLATE_IN == <<91, 20195, 35789, 93, 36208, 36827, 20102, 91, 21517, 35789, 93>>
TEMPLATE_OUT == <<91, 20195, 35789, 93, 36208, 20986, 20102, 91, 21517, 35789, 93>>

\* "[代词]跑出了[名词]": two characters from TEMPLATE_IN, one from TEMPLATE_OUT
TEMPLATE_MID == <<91, 20195, 35789, 93, 36305, 20986, 20102, 91, 21517, 35789, 93>>
\* "[代词]跑出去[动词]": two characters from TEMPLATE_MID, four from TEMPLATE_IN
TEMPLATE_FAR == <<91, 20195, 35789, 93, 36305, 20986, 21435, 91, 21160, 35789, 93>>

TemplatePool == {TEMPLATE_SHORT, TEMPLATE_SIX, TEMPLATE_IN, TEMPLATE_OUT, TEMPLATE_FAR}

\* "[数词]第" and the k-th of a family of distinct characters
repeated_template(k) == <<91, 25968, 35789, 93, 31532, 20000 + k>>

\* a template item: the dict with its template; index tells the items of the list apart
template_item(index, template) == [index |-> index, template |-> template]

InitClustering ==
    /\ chapters = <<>>
    /\ ANALYSIS_VERSION = Versions[1]
    /\ cache_table = {}
    /\ analysis_table = {}
    /\ db_cache = {}
    /\ db_analysis = {}
    /\ run = IdleRun
    /\ baseline = NoBaseline
    /\ edits = 0
    /\ template_items = <<>>
    /\ repeated_templates = 0
    /\ clustered = <<>>
    /\ analysed = NotAnalysed
    /\ OthersIdle

\* The list starts with n distinct templates, each carried by two items.
AddRepeated(n) ==
    /\ template_items = <<>>
    /\ template_items' = [j \in 1..(2 * n) |-> template_item(j, repeated_template((j + 1) \div 2))]
    /\ repeated_templates' = n
    /\ clustered' = <<>>
    /\ UNCHANGED <<analysis_vars, analysed, other_vars>>

\* The list starts with two items that carry TEMPLATE_MID.
AddMiddle ==
    /\ template_items = <<>>
    /\ template_items' = <<template_item(1, TEMPLATE_MID), template_item(2, TEMPLATE_MID)>>
    /\ repeated_templates' = 1
    /\ clustered' = <<>>
    /\ UNCHANGED <<analysis_vars, analysed, other_vars>>

\* One more item, with a template of the pool, is put at the end of the list.
AddItem(template) ==
    /\ Len(template_items) - 2 * repeated_templates < MaxItems
    /\ template_items' = Append(template_items,
                                template_item(Len(template_items) + 1, template))
    /\ clustered' = <<>>
    /\ UNCHANGED <<analysis_vars, analysed, other_vars, repeated_templates>>

\* cluster_templates(templates) on the list
Cluster ==
    /\ clustered' = cluster_templates(template_items)
    /\ UNCHANGED <<analysis_vars, analysed, other_vars, template_items, repeated_templates>>

NextClustering ==
    \/ AddRepeated(MAX_CLUSTERS_FOR_MERGE + 1)
    \/ AddMiddle
    \/ \E template \in TemplatePool : AddItem(template)
    \/ Cluster

SpecClustering == InitClustering /\ [][NextClustering]_vars

(***************************************************************************)
(* One call of an analysis on a corpus                                     *)
(***************************************************************************)

\* the largest number of chapters of a corpus put together from CorpusPool
MaxCorpus == 3

\* "他走进了房间。"
TEXT_WALKED == <<20182, 36208, 36827, 20102, 25151, 38388, 12290>>

\* "她开心地笑了笑。她高兴地点头。"
TEXT_JOY ==
    <<22905, 24320, 24515, 22320, 31505, 20102, 31505, 12290,
      22905, 39640, 20852, 22320, 28857, 22836, 12290>>

\* "好的。": a text without a sentence of more than 3 characters
TEXT_SHORT == <<22909, 30340, 12290>>

CorpusPool == {TEXT_EMPTY, TEXT_WALKED, TEXT_ROOM, TEXT_MORNING, TEXT_JOY, TEXT_SHORT}

\* a project of five chapters, each only the sentence "他走进了房间。"
FIVE_WALKED == [c \in 1..5 |-> TEXT_WALKED]

\* the corpora analysed: every list of up to MaxCorpus chapters with texts of the pool,
\* and the five-chapter project
Corpora == UNION {[1..n -> CorpusPool] : n \in 0..MaxCorpus} \cup {FIVE_WALKED}

\* the chapter loop of the incremental analysis on an empty cache table: the analyses
\* of the chapters with content, from chapter c on
RECURSIVE fresh_chapter_analyses(_, _)
fresh_chapter_analyses(chapter_list, c) ==
    IF c > Len(chapter_list) THEN <<>>
    ELSE (IF skips_chapter(chapter_list[c]) THEN <<>>
          ELSE <<get_or_create_chapter_cache({}, c, c, chapter_list[c], TRUE, Versions[2]).analysis>>)
         \o fresh_chapter_analyses(chapter_list, c + 1)

\* what one call leaves: its templates, the n-grams mined from them, and its result
analysed_call(kind, templates, result) ==
    [kind |-> kind,
     templates |-> templates,
     bigrams |-> extract_ngrams(templates, 2),
     trigrams |-> extract_ngrams(templates, 3),
     result |-> result]

analysed_full(all_sentences, templates, patterns, chapter_list) ==
    analysed_call("full", templates,
                  full_result_of(all_sentences, templates, patterns, chapter_list))

analysed_incremental(chapter_analyses, templates, patterns, chapter_list) ==
    analysed_call("incremental", templates,
                  incremental_result_of(chapter_analyses, templates, patterns,
                                        Len(chapter_list), 0, Len(chapter_analyses)))

InitCorpus ==
    /\ chapters \in Corpora
    /\ ANALYSIS_VERSION = Versions[2]
    /\ cache_table = {}
    /\ analysis_table = {}
    /\ db_cache = {}
    /\ db_analysis = {}
    /\ run = IdleRun
    /\ baseline = NoBaseline
    /\ edits = 0
    /\ template_items = <<>>
    /\ repeated_templates = 0
    /\ clustered = <<>>
    /\ analysed = NotAnalysed
    /\ OthersIdle

\* analyze_project_patterns past the min_chapters test, on the corpus, step after step:
\* the sentences (step 2), their templates (step 3), the clusters (step 4), the patterns (step 5), then
\* the result
AnalyseFull ==
    /\ analysed = NotAnalysed
    /\ \E all_sentences \in {full_sentences(chapters, 1)} :
       \E templates \in {templates_of_sentences(all_sentences)} :
       \E clusters \in {cluster_templates(templates)} :
       \E patterns \in {find_patterns(clusters)} :
          analysed' = analysed_full(all_sentences, templates, patterns, chapters)
    /\ UNCHANGED <<analysis_vars, clustering_vars, other_vars>>

\* analyze_project_patterns_incremental past the min_chapters test, on the corpus with
\* an empty cache, step after step: the chapter loop, the templates (step 3), the
\* clusters (step 4), the patterns (step 5), then the result
AnalyseIncremental ==
    /\ analysed = NotAnalysed
    /\ \E chapter_analyses \in {fresh_chapter_analyses(chapters, 1)} :
       \E templates \in {collect_templates(chapter_analyses)} :
       \E clusters \in {cluster_templates(templates)} :
       \E patterns \in {find_patterns(clusters)} :
          analysed' = analysed_incremental(chapter_analyses, templates, patterns, chapters)
    /\ UNCHANGED <<analysis_vars, clustering_vars, other_vars>>

NextCorpus == AnalyseFull \/ AnalyseIncremental

SpecCorpus == InitCorpus /\ [][NextCorpus]_vars

(***************************************************************************)
(* Properties of the chapter cache                                         *)
(***************************************************************************)

\* a pass of the chapter loop of an incremental run without force_refresh
LoopPass ==
    /\ run.pc = "chapters"
    /\ run.kind = "incremental"
    /\ ~run.force_refresh
    /\ run'.pc = "chapters"
    /\ run'.i = run.i + 1

\* the stored row of chapter c carries the hash of its current text and the current version
Trusted(c) ==
    \E row \in db_cache :
        /\ row.chapter_id = c
        /\ row.content_hash = compute_content_hash(chapters[c])
        /\ row.analysis_version = ANALYSIS_VERSION

\* the last chapter analysis handed to the aggregation is the stored one of chapter c
FedFromRow(c) ==
    \E row \in db_cache :
        /\ row.chapter_id = c
        /\ LET fed == run'.chapter_analyses[Len(run'.chapter_analyses)]
           IN  /\ fed.chapter_id = c
               /\ fed.templates = row.templates
               /\ fed.sentence_count = row.sentence_count
               /\ fed.opening_type = row.opening_type
               /\ fed.emotion_stats = row.emotion_stats

\* chapter c is analysed and its row written as when the table holds no row of it
RecomputedAsIfAbsent(c) ==
    LET fresh == analyze_single_chapter(c, c, chapters[c])
    IN  /\ c \in run'.refreshed_chapters
        /\ c \notin run'.cached_chapters
        /\ run'.chapter_analyses = Append(run.chapter_analyses, fresh)
        /\ db_cache' = {row \in db_cache : row.chapter_id # c}
                        \cup {cache_row(c, c, compute_content_hash(chapters[c]), fresh,
                                        ANALYSIS_VERSION)}

Returns ==
    /\ run.pc = "commit"
    /\ run'.pc = "done"
    /\ run.kind = "incremental"

\* the last incremental run that succeeded is the last thing that touched the cache
\* rows and the stored result, and no chapter was edited and no release made since
Unchanged == baseline.valid /\ baseline.edited = <<>>

\* the result stored by the last run that succeeded, field for field
SameAsStored(result) ==
    \E row \in analysis_table :
        /\ row.project_id = PROJECT_ID
        /\ \A f \in RESULT_FIELDS : result[f] = row.fields[f]

\* C2: when an incremental run has succeeded and is repeated without forced refresh,
\* no chapter text and no version having changed in between, the second run analyses
\* no chapter again (every chapter it processes comes from the cache), succeeds, and
\* returns a result whose every AnalysisResult field equals that of the first run.
C2_IdempotentReanalysis ==
    /\ [][Returns /\ ~run.force_refresh /\ Unchanged =>
            /\ run'.refreshed_chapters = {}
            /\ run'.cached_chapters = chapters_with_content
            /\ run'.result.status = "success"
            /\ run'.result.incremental_stats =
                  [cached_chapters |-> Cardinality(chapters_with_content),
                   refreshed_chapters |-> 0]
            /\ SameAsStored(run'.result)]_vars
    /\ [](run.pc = "done" /\ run.kind = "incremental" /\ Unchanged
            /\ ~has_insufficient_data(Len(chapters), run.min_chapters)
          => run.result.status = "success")

\* a second run has returned, all from the cache, after a first run that analysed
\* chapters with emotion expressions and patterns
C2_Witness ==
    /\ run.pc = "done"
    /\ run.kind = "incremental"
    /\ ~run.force_refresh
    /\ baseline.valid /\ baseline.served
    /\ Cardinality(run.cached_chapters) = 2
    /\ run.refreshed_chapters = {}
    /\ run.result.status = "success"
    /\ run.result.patterns_found > 0
    /\ run.result.emotion_diversity.total_expressions > 0

\* the rows of chapter c in a table
RowsOf(table, c) == {row \in table : row.chapter_id = c}

\* exactly one chapter edit was made since the last incremental run that succeeded
EditedOnce == baseline.valid /\ Len(baseline.edited) = 1

\* the committed row of chapter c carries the hash of its current text and the
\* current version
TrustedBefore(c) ==
    \E row \in RowsOf(cache_table, c) :
        /\ row.content_hash = compute_content_hash(chapters[c])
        /\ row.analysis_version = ANALYSIS_VERSION

\* every sibling of chapter c keeps its row
SiblingRowsKept(c) ==
    \A d \in (1..Len(chapters)) \ {c} : RowsOf(cache_table', d) = RowsOf(cache_table, d)

FreshRow(c) ==
    cache_row(c, c, compute_content_hash(chapters[c]),
              analyze_single_chapter(c, c, chapters[c]), ANALYSIS_VERSION)

\* the fields of a result that C4 compares
COMPARED_FIELDS == {"score", "level", "patterns_found", "top_patterns", "opening_analysis",
                    "emotion_diversity", "ngram_analysis", "suggestions"}

\* C4: an incremental run with force_refresh on a project whose chapters are unchanged
\* since the last incremental run takes no chapter from the cache (cached count 0):
\* every chapter it processes is analysed again and its row written afresh; and the
\* score, level, patterns, opening analysis, emotion diversity, n-gram analysis and
\* suggestions it returns equal those stored by the previous run.
C4_ForcedRefresh ==
    [][Returns /\ run.force_refresh /\ Unchanged =>
        /\ run'.cached_chapters = {}
        /\ run'.refreshed_chapters = chapters_with_content
        /\ run'.result.status = "success"
        /\ run'.result.incremental_stats =
              [cached_chapters |-> 0, refreshed_chapters |-> Cardinality(chapters_with_content)]
        /\ \A c \in chapters_with_content : RowsOf(cache_table', c) = {FreshRow(c)}
        /\ \E row \in analysis_table :
              /\ row.project_id = PROJECT_ID
              /\ \A f \in COMPARED_FIELDS : run'.result[f] = row.fields[f]]_vars

\* a forced run over two unchanged chapters, after a run served from the cache alone, is
\* about to return a result with patterns and emotions
C4_Witness ==
    /\ run.pc = "commit"
    /\ run.kind = "incremental"
    /\ run.force_refresh
    /\ Unchanged
    /\ baseline.served
    /\ run.cached_chapters = {}
    /\ Cardinality(run.refreshed_chapters) = 2
    /\ run.analysis_result.patterns_found > 0
    /\ run.analysis_result.emotion_diversity.total_expressions > 0

\* a step of an incremental run, from its start to the end of its request
IncrementalRunStep ==
    \/ run.pc # "idle" /\ run.kind = "incremental"
    \/ run.pc = "idle" /\ run'.kind = "incremental"

\* C5: the rows of an incremental run are persisted all together or not at all.  No step
\* of the run changes the persisted cache entries or the persisted analysis result,
\* except the commit that succeeds, which persists the run's cache entries and its
\* result together.  So a run that a raising chapter step, a deadline or a failing
\* commit ends leaves the persisted state as it was before the run.
C5_AllOrNothing ==
    [][IncrementalRunStep =>
        IF run.pc = "commit" /\ run'.pc = "done"
        THEN cache_table' = db_cache /\ analysis_table' = db_analysis
        ELSE UNCHANGED <<cache_table, analysis_table>>]_vars

\* the commit of an incremental run has failed while the session held new cache entries
\* and a new result
C5_Witness ==
    /\ run.pc = "raised"
    /\ run.kind = "incremental"
    /\ run.error = "commit"
    /\ db_cache # cache_table
    /\ db_analysis # analysis_table

\* the run in progress is on a project with fewer chapters than the minimum it was given
TooFewChapters(r) == r.pc # "idle" /\ Len(chapters) < r.min_chapters

\* C6: on a project with fewer chapters than the configured minimum, the full and the
\* incremental analysis both return (they do not raise) a result with status
\* "insufficient_data" and current_chapters equal to the chapter count, without a score
\* or a level; the session holds no new row, and no step of the request changes the
\* persisted cache entries or the persisted analysis result.
C6_InsufficientData ==
    /\ [](TooFewChapters(run) =>
            /\ run.pc = "done"
            /\ run.result.status = "insufficient_data"
            /\ run.result.current_chapters = Len(chapters)
            /\ "score" \notin DOMAIN run.result
            /\ "level" \notin DOMAIN run.result
            /\ db_cache = cache_table
            /\ db_analysis = analysis_table)
    /\ [][TooFewChapters(run) \/ TooFewChapters(run') =>
            UNCHANGED <<cache_table, analysis_table>>]_vars

\* a project of two chapters, analysed before with a minimum of two, is analysed with
\* the default minimum
C6_Witness ==
    /\ run.pc = "done"
    /\ run.min_chapters = DEFAULT_MIN_CHAPTERS
    /\ run.result.status = "insufficient_data"
    /\ run.result.current_chapters = 2
    /\ cache_table # {}
    /\ analysis_table # {}

\* the run in progress is on a project with enough chapters, all of them without text
AllChaptersEmpty(r) ==
    r.pc # "idle" /\ Len(chapters) >= r.min_chapters /\ chapters_with_content = {}

\* C7: on a project with at least the minimum number of chapters, all of them with
\* empty text, the full and the incremental analysis both return a result whose status
\* is neither "success" nor "insufficient_data" and which has no score; the analysis
\* itself never raises (only the caller's deadline can end it early), never reaches its
\* commit, puts no row in the session, and no step of the request changes the persisted
\* cache entries or the persisted analysis result.
C7_EmptyContent ==
    /\ [](AllChaptersEmpty(run) =>
            /\ run.pc # "commit"
            /\ db_cache = cache_table
            /\ db_analysis = analysis_table
            /\ (run.pc = "done" =>
                  /\ run.result.status = "no_content"
                  /\ run.result.status \notin {"success", "insufficient_data"}
                  /\ "score" \notin DOMAIN run.result
                  /\ "level" \notin DOMAIN run.result)
            /\ (run.pc = "raised" => run.error = "deadline"))
    /\ [][AllChaptersEmpty(run) \/ AllChaptersEmpty(run') =>
            UNCHANGED <<cache_table, analysis_table>>]_vars

\* an incremental run has returned on a project whose two chapters were both emptied
\* after an analysis that stored cache entries and a result
C7_Witness ==
    /\ run.pc = "done"
    /\ run.kind = "incremental"
    /\ Len(chapters) = 2
    /\ chapters_with_content = {}
    /\ run.result.status = "no_content"
    /\ cache_table # {}
    /\ analysis_table # {}

\* C8: the failure of the extraction step for one chapter does not end the run: the
\* chapter is skipped and the run goes on with the remaining chapters to a result.  So
\* no run is ever ended by the exception of a chapter's extraction.
C8_FailureIsolation ==
    run.failed_chapter # 0 => run.pc \in {"chapters", "commit", "done"}

\* C9: in every success result, chapters_analyzed is the number of chapters whose
\* analyses entered the aggregation (the chapters with text), and the score is the one
\* computed with that number as the chapter count.
C9_CountsOnlyAggregatedChapters ==
    run.pc = "commit" =>
        LET aggregated == IF run.kind = "incremental" THEN Len(run.chapter_analyses)
                          ELSE Cardinality(chapters_with_content)
        IN  /\ run.analysis_result.chapters_analyzed = aggregated
            /\ run.kind = "incremental" =>
                  run.analysis_result.score =
                      incremental_result(run.chapter_analyses, aggregated,
                                         Cardinality(run.cached_chapters),
                                         Cardinality(run.refreshed_chapters)).score

(***************************************************************************)
(* Properties of the clusterer                                             *)
(***************************************************************************)

\* the members of the returned clusters, as pairs <<cluster, place in the cluster>>
Members == UNION {{<<g, k>> : k \in 1..Len(clustered[g])} : g \in 1..Len(clustered)}

\* C10: every cluster that one clustering call returns has at least 2 members; every
\* member is an item of the input list; no item of the input list is a member of two
\* returned clusters, nor twice a member of one (the members are as many as the items
\* they are); and no item whose template has 5 characters or fewer is a member of a
\* returned cluster.  This holds when the fuzzy
\* merge runs and when, with more than MAX_CLUSTERS_FOR_MERGE exact clusters, it does not.
C10_ClusteringPartition ==
    /\ \A g \in 1..Len(clustered) : Len(clustered[g]) >= 2
    /\ \A m \in Members :
          /\ clustered[m[1]][m[2]] \in {template_items[j] : j \in 1..Len(template_items)}
          /\ Len(clustered[m[1]][m[2]].template) > 5
    /\ Cardinality({clustered[m[1]][m[2]].index : m \in Members}) = Cardinality(Members)

\* the exact-only path has returned more than MAX_CLUSTERS_FOR_MERGE clusters from a
\* list that also holds a short template, a template that occurs once and a template
\* that occurs twice
C10_Witness ==
    /\ Len(clustered) = MAX_CLUSTERS_FOR_MERGE + 2
    /\ \E j \in 1..Len(template_items) : template_items[j].template = TEMPLATE_SHORT
    /\ \E j \in 1..Len(template_items) : template_items[j].template = TEMPLATE_IN
    /\ \E j \in 1..Len(template_items) : template_items[j].template = TEMPLATE_SIX

(***************************************************************************)
(* One call of calculate_pattern_score                                     *)
(***************************************************************************)

\* the longest pattern list of a call
MaxPatterns == 12

\* the arguments of a call: k patterns of one count, the fields of the analyses that
\* the score reads
PatternLists == {[k \in 1..n |-> [count |-> count]] : n \in {0, 7, MaxPatterns}, count \in {2, 10}}
ChapterCounts == {3, 30}
OpeningAnalyses ==
    {[is_monotonous |-> FALSE, dominant_ratio |-> 50]}
        \cup {[is_monotonous |-> TRUE, dominant_ratio |-> r] : r \in {60, 80, 81}}
EmotionDiversities == {[diversity_score |-> s] : s \in {39, 59, 79, 80}}
NgramAnalyses ==
    {[diversity_score |-> s,
      bigram_patterns |-> [k \in 1..b |-> k],
      trigram_patterns |-> [k \in 1..t |-> k]] : s \in {29, 49, 69, 70}, b \in {1, 2, 4, 6}, t \in {1, 2, 4}}

InitScore ==
    /\ chapters = <<>>
    /\ ANALYSIS_VERSION = Versions[1]
    /\ cache_table = {}
    /\ analysis_table = {}
    /\ db_cache = {}
    /\ db_analysis = {}
    /\ run = IdleRun
    /\ baseline = NoBaseline
    /\ edits = 0
    /\ template_items = <<>>
    /\ repeated_templates = 0
    /\ clustered = <<>>
    /\ analysed = NotAnalysed
    /\ OthersIdle

\* one call of calculate_pattern_score: its arguments and the score it returns
Score(patterns, opening_analysis, emotion_diversity, chapter_count, ngram_analysis) ==
    /\ analysed = NotAnalysed
    /\ analysed' = [kind |-> "score",
                    patterns |-> patterns,
                    opening_analysis |-> opening_analysis,
                    emotion_diversity |-> emotion_diversity,
                    chapter_count |-> chapter_count,
                    ngram_analysis |-> ngram_analysis,
                    score |-> calculate_pattern_score(patterns, opening_analysis,
                                                      emotion_diversity, chapter_count,
                                                      ngram_analysis)]
    /\ UNCHANGED <<analysis_vars, clustering_vars, other_vars>>

NextScore ==
    \E patterns \in PatternLists, opening_analysis \in OpeningAnalyses,
       emotion_diversity \in EmotionDiversities, chapter_count \in ChapterCounts,
       ngram_analysis \in NgramAnalyses :
        Score(patterns, opening_analysis, emotion_diversity, chapter_count, ngram_analysis)

SpecScore == InitScore /\ [][NextScore]_vars

(***************************************************************************)
(* One call of each emotion analyzer on the same chapters                  *)
(***************************************************************************)

\* the largest number of occurrences of the most used and of the second expression of
\* the happy category
MaxTop == 19
MaxOther == 8

\* the text in which expr occurs n times, each occurrence followed by '。'
repeated_expression(expr, n) ==
    [i \in 1..(n * (Len(expr) + 1)) |->
        IF i % (Len(expr) + 1) = 0 THEN 12290 ELSE expr[i % (Len(expr) + 1)]]

\* three chapters: "笑了笑" top times over the first two, "开心地" other times in the
\* second, "伤心地" sad times in the third; a chapter without content is not passed on
emotion_corpus(top, other, sad) ==
    SelectSeq(<<repeated_expression(EMOTION_EXPRESSIONS_happy[1], top - (top \div 2)),
                repeated_expression(EMOTION_EXPRESSIONS_happy[1], top \div 2)
                    \o repeated_expression(EMOTION_EXPRESSIONS_happy[6], other),
                repeated_expression(EMOTION_EXPRESSIONS_sad[8], sad)>>,
              HasContent)

\* one chapter in which "笑了笑", "开心地", "伤心地", "怒道" and "害怕" occur twice each
VARIED_EMOTIONS ==
    <<repeated_expression(EMOTION_EXPRESSIONS_happy[1], 2)
        \o repeated_expression(EMOTION_EXPRESSIONS_happy[6], 2)
        \o repeated_expression(EMOTION_EXPRESSIONS_sad[8], 2)
        \o repeated_expression(EMOTION_EXPRESSIONS_angry[1], 2)
        \o repeated_expression(EMOTION_EXPRESSIONS_fear[1], 2)>>

EmotionCorpora ==
    {emotion_corpus(top, other, sad) : top \in 0..MaxTop, other \in 0..MaxOther, sad \in {0, 4, 5}}
        \cup {VARIED_EMOTIONS}

InitEmotion ==
    /\ chapters \in EmotionCorpora
    /\ ANALYSIS_VERSION = Versions[2]
    /\ cache_table = {}
    /\ analysis_table = {}
    /\ db_cache = {}
    /\ db_analysis = {}
    /\ run = IdleRun
    /\ baseline = NoBaseline
    /\ edits = 0
    /\ template_items = <<>>
    /\ repeated_templates = 0
    /\ clustered = <<>>
    /\ analysed = NotAnalysed
    /\ OthersIdle

\* analyze_emotion_diversity on the chapter texts, and aggregate_emotion_stats on the
\* analyses of the same chapters
AnalyseEmotions ==
    /\ analysed = NotAnalysed
    /\ \E chapter_analyses \in {[c \in 1..Len(chapters) |-> analyze_single_chapter(c, c, chapters[c])]} :
          analysed' = [kind |-> "emotion",
                       whole |-> analyze_emotion_diversity(chapters),
                       aggregated |-> aggregate_emotion_stats(chapter_analyses)]
    /\ UNCHANGED <<analysis_vars, clustering_vars, other_vars>>

NextEmotion == AnalyseEmotions

SpecEmotion == InitEmotion /\ [][NextEmotion]_vars

(***************************************************************************)
(* One call of a template abstraction                                      *)
(***************************************************************************)

\* the longest sentence, in characters, and the longest in tagged words
MaxSentence == 3
MaxWords == 3

\* 他 我 们 房 间 走 了 。
SentenceAlphabet == {20182, 25105, 20204, 25151, 38388, 36208, 20102, 12290}
Sentences == UNION {[1..n -> SentenceAlphabet] : n \in 1..MaxSentence}

\* (word, flag) pairs of the tagger: 他/r 我们/r 房间/n 小明/nr 走/v 进/v 看/v 很/d
\* 美丽/a 三/m 在/p 了/ul
TaggedWords ==
    {<<<<20182>>, <<114>>>>, <<<<25105, 20204>>, <<114>>>>, <<<<25151, 38388>>, <<110>>>>,
     <<<<23567, 26126>>, <<110, 114>>>>, <<<<36208>>, <<118>>>>, <<<<36827>>, <<118>>>>,
     <<<<30475>>, <<118>>>>, <<<<24456>>, <<100>>>>, <<<<32654, 20029>>, <<97>>>>,
     <<<<19977>>, <<109>>>>, <<<<22312>>, <<112>>>>, <<<<20102>>, <<117, 108>>>>}
TaggedSentences == UNION {[1..n -> TaggedWords] : n \in 1..MaxWords}

InitTemplate ==
    /\ chapters = <<>>
    /\ ANALYSIS_VERSION = Versions[1]
    /\ cache_table = {}
    /\ analysis_table = {}
    /\ db_cache = {}
    /\ db_analysis = {}
    /\ run = IdleRun
    /\ baseline = NoBaseline
    /\ edits = 0
    /\ template_items = <<>>
    /\ repeated_templates = 0
    /\ clustered = <<>>
    /\ analysed = NotAnalysed
    /\ OthersIdle

\* one call of _extract_template_simple_impl, the strategy without the tagger
AbstractSimple(sentence) ==
    /\ analysed = NotAnalysed
    /\ analysed' = [kind |-> "template", strategy |-> "simple", sentence |-> sentence,
                    template |-> extract_template_simple_impl(sentence)]
    /\ UNCHANGED <<analysis_vars, clustering_vars, other_vars>>

\* one call of _extract_template_with_jieba_impl with the tagger, which cuts the
\* sentence into these words
AbstractTagged(words) ==
    /\ analysed = NotAnalysed
    /\ analysed' = [kind |-> "template", strategy |-> "jieba", sentence |-> words,
                    template |-> extract_template_with_jieba_impl(words)]
    /\ UNCHANGED <<analysis_vars, clustering_vars, other_vars>>

NextTemplate ==
    \/ \E sentence \in Sentences : AbstractSimple(sentence)
    \/ \E words \in TaggedSentences : AbstractTagged(words)

SpecTemplate == InitTemplate /\ [][NextTemplate]_vars

(***************************************************************************)
(* Properties of the n-gram extraction                                     *)
(***************************************************************************)

\* the n-grams of the list that belong to chapter c, in the order of the list
NgramsOfChapter(ngrams, c) ==
    LET InChapter(g) == g.chapter_id = c
    IN  SelectSeq(ngrams, InChapter)

\* the n-gram that starts at sentence i of the sentences of a chapter
ExpectedNgram(sentences, c, i, n) ==
    [pattern |-> [k \in 1..n |-> extract_sentence_type(extract_template_cached(sentences[i + k - 1]))],
     chapter_id |-> c,
     chapter_number |-> c,
     start_position |-> i - 1,
     sentences |-> SubSeq(sentences, i, i + n - 1)]

\* a chapter with these sentences has exactly the n-grams of its consecutive sentences
ChapterNgramsExact(ngrams, sentences, c, n) ==
    /\ Len(NgramsOfChapter(ngrams, c)) = Max(0, Len(sentences) - (n - 1))
    /\ \A i \in 1..Len(NgramsOfChapter(ngrams, c)) :
          NgramsOfChapter(ngrams, c)[i] = ExpectedNgram(sentences, c, i, n)

\* the sum over the chapters 1..c of max(0, k - (n - 1)), k the chapter's sentence count
RECURSIVE ExpectedNgramCount(_, _)
ExpectedNgramCount(c, n) ==
    IF c = 0 THEN 0
    ELSE Max(0, Len(split_sentences(chapters[c])) - (n - 1)) + ExpectedNgramCount(c - 1, n)

NgramsExact(ngrams, n) ==
    /\ \A c \in 1..Len(chapters) : ChapterNgramsExact(ngrams, split_sentences(chapters[c]), c, n)
    /\ \A i \in 1..Len(ngrams) : ngrams[i].chapter_id \in 1..Len(chapters)
    /\ Len(ngrams) = ExpectedNgramCount(Len(chapters), n)

\* C11: after an analysis, a chapter with k sentences has exactly max(0, k-1) bigrams
\* and max(0, k-2) trigrams, the i-th of them made of the chapter's consecutive
\* sentences i, i+1 (, i+2); every n-gram lies in one chapter, and the totals are the
\* sums over the chapters.
C11_NgramBoundary ==
    analysed.kind # "none" =>
        NgramsExact(analysed.bigrams, 2) /\ NgramsExact(analysed.trigrams, 3)

\* an analysis of a corpus in which two chapters have bigrams and one has a trigram
C11_Witness ==
    /\ analysed.kind # "none"
    /\ analysed.trigrams # <<>>
    /\ \E c, d \in 1..Len(chapters) :
          /\ c # d
          /\ NgramsOfChapter(analysed.bigrams, c) # <<>>
          /\ NgramsOfChapter(analysed.bigrams, d) # <<>>

(***************************************************************************)
(* Properties of the score                                                 *)
(***************************************************************************)

\* the four deductions of a call, in the order of the code
Deductions(call) ==
    <<pattern_repetition_deduction(call.patterns, call.chapter_count),
      opening_deduction(call.opening_analysis),
      emotion_deduction(call.emotion_diversity),
      ngram_deduction(call.ngram_analysis)>>

DEDUCTION_CAPS == <<30, 20, 20, 30>>

\* C12: for every call of the score, each of the four deductions is a natural number
\* within its cap (pattern repetition 30, opening 20, emotion 20, n-gram 30), and the
\* returned score is the integer 100 minus the four deductions, within 0..100.
C12_ScoreWithinCaps ==
    analysed.kind = "score" =>
        /\ \A d \in 1..4 : Deductions(analysed)[d] \in 0..DEDUCTION_CAPS[d]
        /\ analysed.score \in 0..100
        /\ analysed.score = 100 - Deductions(analysed)[1] - Deductions(analysed)[2]
                                - Deductions(analysed)[3] - Deductions(analysed)[4]

\* a call in which the pattern penalty exceeds its cap and the other three deductions
\* are at their caps: the score is 0
C12_Witness ==
    /\ analysed.kind = "score"
    /\ pattern_penalty(Prefix(analysed.patterns, 10), analysed.chapter_count) > 30
    /\ Deductions(analysed) = DEDUCTION_CAPS
    /\ analysed.score = 0

(***************************************************************************)
(* Properties of the emotion analysis                                      *)
(***************************************************************************)

\* the category has at least 5 occurrences and its most used expression has a share
\* strictly above 0.7 of them
OverConcentrated(emotion_diversity, emotion) ==
    /\ emotion \in DOMAIN emotion_diversity.emotions
    /\ emotion_diversity.emotions[emotion].total_count >= 5
    /\ 10 * emotion_diversity.emotions[emotion].top_count
            > 7 * emotion_diversity.emotions[emotion].total_count

\* the analysis flags a category exactly if some category is over-concentrated, and
\* then names one that is
FlagsOverConcentration(emotion_diversity) ==
    IF \E k \in 1..Len(EMOTIONS) : OverConcentrated(emotion_diversity, EMOTIONS[k])
    THEN /\ emotion_diversity.suggestion # <<>>
         /\ OverConcentrated(emotion_diversity, emotion_diversity.most_concentrated_emotion)
    ELSE emotion_diversity.suggestion = <<>>

\* C13: on every corpus, the whole-corpus analyzer and the aggregated analyzer each flag
\* a category (non-empty suggestion, naming a category with total >= 5 and top share
\* > 0.7) exactly if some category has total >= 5 and top share > 0.7, and the two
\* analyzers flag alike.
C13_OverConcentrationFlag ==
    analysed.kind = "emotion" =>
        /\ FlagsOverConcentration(analysed.whole)
        /\ FlagsOverConcentration(analysed.aggregated)
        /\ analysed.whole.suggestion = analysed.aggregated.suggestion

(***************************************************************************)
(* Properties of the template abstraction                                  *)
(***************************************************************************)

\* the categorical placeholders: noun, pronoun, adverb, adjective, numeral and the verb
\* groups
PLACEHOLDERS ==
    {PLACEHOLDER_NOUN, PLACEHOLDER_PRONOUN, PLACEHOLDER_ADVERB, PLACEHOLDER_ADJECTIVE,
     PLACEHOLDER_NUMERAL}
        \cup {VERB_SEMANTIC_GROUPS[g].tag : g \in 1..Len(VERB_SEMANTIC_GROUPS)}

\* C14: under either strategy, the template of a sentence never has the same
\* categorical placeholder twice in immediate succession.
C14_NoAdjacentPlaceholders ==
    analysed.kind = "template" =>
        \A placeholder \in PLACEHOLDERS : ~Contains(analysed.template, placeholder \o placeholder)

(***************************************************************************)
(* Properties of the stored rows                                           *)
(***************************************************************************)

analysis_rows(db, project_id) == {row \in db : row.project_id = project_id}

\* at most one cache row per chapter id and one analysis row per project id
SingleRows(cache, analysis) ==
    /\ \A c \in 1..MaxChapters : Cardinality(cache_rows(cache, c)) <= 1
    /\ Cardinality(analysis_rows(analysis, PROJECT_ID)) <= 1

\* the analysis rows hold the fields of the given result and nothing else
HoldsOnly(analysis, result) ==
    analysis = {[project_id |-> PROJECT_ID, fields |-> stored_fields(result),
                 detection_version |-> "2.0"]}

\* C15: whatever runs, edits, releases and clearings came before, the committed store and
\* the session each hold at most one cache row per chapter and at most one analysis row
\* for the project; a result saved by a run is the only analysis row and carries every
\* result field of that run; and after a successful incremental run every chapter that
\* was processed (every chapter with content) has exactly one cache row.
C15_SingleLiveRow ==
    /\ SingleRows(cache_table, analysis_table)
    /\ SingleRows(db_cache, db_analysis)
    /\ run.pc = "commit" => HoldsOnly(db_analysis, run.analysis_result)
    /\ (run.pc = "done" /\ run.result.status = "success") =>
            /\ HoldsOnly(analysis_table, run.result)
            /\ run.kind = "incremental" =>
                    \A c \in chapters_with_content :
                        Cardinality(cache_rows(cache_table, c)) = 1

\* a successful incremental run that has recomputed an edited chapter over its committed
\* row and saved a result that differs from the committed one, and is about to commit
C15_Witness ==
    /\ run.pc = "commit"
    /\ run.kind = "incremental"
    /\ analysis_table # {}
    /\ ~HoldsOnly(analysis_table, run.analysis_result)
    /\ \E c \in run.refreshed_chapters :
            /\ cache_rows(cache_table, c) # {}
            /\ cache_rows(db_cache, c) # cache_rows(cache_table, c)

(***************************************************************************)
(* The project of five one-sentence chapters                               *)
(***************************************************************************)

\* "他走进了房间": the sentence of TEXT_WALKED as split_sentences returns it
SENTENCE_WALKED == split_sentences(TEXT_WALKED)[1]

\* C16 (scenario A): on five chapters that each are the sentence "他走进了房间。", either
\* analysis returns success with one pattern, of count >= 5, on the template of that
\* sentence; the opening analysis has dominant type "action" at ratio 1.0 and is
\* monotonous; the pattern deduction and the opening deduction are both positive and
\* the score is at most 100 minus their sum.
C16_ScenarioA ==
    (analysed.kind \in {"full", "incremental"} /\ chapters = FIVE_WALKED) =>
        /\ analysed.result.status = "success"
        /\ analysed.result.patterns_found = 1
        /\ Len(analysed.result.top_patterns) = 1
        /\ analysed.result.top_patterns[1].count >= 5
        /\ analysed.result.top_patterns[1].template = extract_template_cached(SENTENCE_WALKED)
        /\ analysed.result.opening_analysis.dominant_type = "action"
        /\ analysed.result.opening_analysis.dominant_ratio = 100
        /\ analysed.result.opening_analysis.is_monotonous
        /\ pattern_repetition_deduction(analysed.result.top_patterns, 5) > 0
        /\ opening_deduction(analysed.result.opening_analysis) > 0
        /\ analysed.result.score <=
                100 - (pattern_repetition_deduction(analysed.result.top_patterns, 5)
                       + opening_deduction(analysed.result.opening_analysis))

\* the incremental analysis has returned on the five-chapter project
C16_Witness ==
    /\ analysed.kind = "incremental"
    /\ chapters = FIVE_WALKED
    /\ analysed.result.chapters_analyzed = 5
    /\ analysed.result.score = 63

(***************************************************************************)
(* The life of a cache entry                                               *)
(***************************************************************************)

\* the state of chapter c's committed cache entry: absent, valid (its hash and version
\* are those of the chapter's text and of the running release) or stale
entry_state(cache, chapter_list, version, c) ==
    IF cache_rows(cache, c) = {} THEN "absent"
    ELSE IF cache_is_valid(cache, c, compute_content_hash(chapter_list[c]), version)
    THEN "valid"
    ELSE "stale"

\* the state of chapter c's entry before and after a step
EntryStep(c) ==
    <<entry_state(cache_table, chapters, ANALYSIS_VERSION, c),
      entry_state(cache_table', chapters', ANALYSIS_VERSION', c)>>

\* the commit of an incremental run that has recomputed chapter c
CommitsRecomputed(c) ==
    /\ run.pc = "commit" /\ run'.pc = "done"
    /\ run.kind = "incremental"
    /\ c \in run.refreshed_chapters

ContentOrVersionChange(c) ==
    chapters'[c] # chapters[c] \/ ANALYSIS_VERSION' # ANALYSIS_VERSION

\* the cache of the project is cleared
Clears == run.pc = "idle" /\ cache_table # {} /\ cache_table' = {} /\ UNCHANGED chapters

\* C17 as stated: every change of a chapter's entry is absent -> valid, valid -> stale
\* or stale -> valid, whatever the operation, clearing the cache included
C17_AsStated ==
    [][\A c \in 1..Len(chapters) :
        \/ EntryStep(c)[1] = EntryStep(c)[2]
        \/ EntryStep(c) \in {<<"absent", "valid">>, <<"valid", "stale">>, <<"stale", "valid">>}]_vars

\* C17: over runs, edits, releases and clearings, a chapter's entry changes only from
\* absent to valid (the commit of a run that analysed the chapter), from valid to stale
\* (a change of the chapter's text or of the version), from stale to valid (the commit
\* of a run that recomputed the chapter, or an edit that gives the chapter back the text
\* the entry was computed from), and from valid or stale to absent when, and only when,
\* the project's cache is cleared.
C17_EntryTransitions ==
    [][\A c \in 1..Len(chapters) :
        \/ EntryStep(c)[1] = EntryStep(c)[2]
        \/ EntryStep(c) = <<"absent", "valid">> /\ CommitsRecomputed(c)
        \/ EntryStep(c) = <<"valid", "stale">> /\ ContentOrVersionChange(c)
        \/ EntryStep(c) = <<"stale", "valid">>
                /\ (CommitsRecomputed(c) \/ chapters'[c] # chapters[c])
        \/ EntryStep(c) \in {<<"valid", "absent">>, <<"stale", "absent">>} /\ Clears]_vars

\* the cache was cleared while it held entries, for a project that has an analysed
\* chapter: entries that existed are absent again
C17_Witness ==
    /\ baseline.cleared
    /\ cache_table = {}
    /\ analysis_table # {}
    /\ chapters_with_content # {}

(***************************************************************************)
(* Aggregation after the chapter loop                                      *)
(***************************************************************************)

\* the step of an incremental run from its chapter loop to the saved result
StartsAggregation ==
    run.kind = "incremental" /\ run.pc = "chapters" /\ run'.pc = "commit"

\* the result aggregated from the given chapter analyses and their templates
AggregatedFrom(chapter_analyses, templates) ==
    incremental_result_of(chapter_analyses, templates,
                          find_patterns(cluster_templates(templates)), Len(chapters),
                          Cardinality(run.cached_chapters),
                          Cardinality(run.refreshed_chapters))

\* C18: a successful incremental run aggregates only when its chapter loop is over and
\* every chapter with content was either served from the cache or recomputed; the
\* outputs it has then are those of all these chapters, in chapter order, each the
\* output of the chapter's current text; and its result is the one clustering, n-gram
\* mining and scoring give on all of them.
C18_AggregatesAllAfterJoin ==
    [][StartsAggregation =>
        /\ run.i > Len(chapters)
        /\ run.cached_chapters \cup run.refreshed_chapters = chapters_with_content
        /\ run.cached_chapters \cap run.refreshed_chapters = {}
        /\ run.chapter_analyses = fresh_chapter_analyses(chapters, 1)
        /\ run'.analysis_result =
                AggregatedFrom(fresh_chapter_analyses(chapters, 1),
                               collect_templates(fresh_chapter_analyses(chapters, 1)))]_vars

\* a run has aggregated cache hits and recomputed chapters together
C18_Witness ==
    /\ run.pc = "commit"
    /\ run.kind = "incremental"
    /\ run.cached_chapters # {}
    /\ run.refreshed_chapters # {}
    /\ run.analysis_result.status = "success"

(***************************************************************************)
(* Properties of the fuzzy merge                                           *)
(***************************************************************************)

\* the items of the list that carry template t
Carriers(t) == {j \in 1..Len(template_items) : template_items[j].template = t}

\* the exact buckets of phase 1: the templates of more than 5 characters that two or
\* more items carry
Buckets ==
    {t \in {template_items[j].template : j \in 1..Len(template_items)} :
        Len(t) > 5 /\ Cardinality(Carriers(t)) >= 2}

\* a pair of bucket templates with a length difference of at most 40% of the longer
\* and a similarity 1 - edit_distance / max(len_a, len_b) of at least 0.70
Linked(a, b) ==
    /\ 5 * (Max(Len(a), Len(b)) - Min(Len(a), Len(b))) <= 2 * Max(Len(a), Len(b))
    /\ 10 * (Max(Len(a), Len(b)) - edit_distance(a, b)) >= 7 * Max(Len(a), Len(b))

\* the buckets that a chain of linked pairs connects with a bucket of the set reached
RECURSIVE Chained(_)
Chained(reached) ==
    IF \A b \in Buckets : (\E a \in reached : Linked(a, b)) => b \in reached
    THEN reached
    ELSE Chained(reached \cup {b \in Buckets : \E a \in reached : Linked(a, b)})

\* the templates of the members of the g-th returned cluster
TemplatesOf(g) == {clustered[g][k].template : k \in 1..Len(clustered[g])}

\* the indices of the members of the g-th returned cluster
IndicesOf(g) == {clustered[g][k].index : k \in 1..Len(clustered[g])}

\* the returned clusters are unions of whole buckets and hold every bucket
UnionsOfBuckets(buckets) ==
    /\ \A t \in buckets : \E g \in 1..Len(clustered) : Carriers(t) \subseteq IndicesOf(g)
    /\ \A g \in 1..Len(clustered) :
          /\ TemplatesOf(g) \subseteq buckets
          /\ \A t \in TemplatesOf(g) : Carriers(t) \subseteq IndicesOf(g)

\* C19: the clusters returned by a clustering call are unions of whole exact buckets
\* and hold every bucket.  With at most 50 buckets, two buckets are in one returned
\* cluster exactly if a chain of pairs of buckets connects them, each pair with a
\* length difference <= 40% of the longer template and a similarity >= 0.70.  With
\* more than 50 buckets every returned cluster is exactly one bucket.
C19_FuzzyMergeClosure ==
    clustered # <<>> =>
        \E buckets \in {Buckets} :
            /\ UnionsOfBuckets(buckets)
            /\ IF Cardinality(buckets) <= 50
               THEN \A a \in buckets : \A g \in 1..Len(clustered) :
                        a \in TemplatesOf(g) => TemplatesOf(g) = Chained({a})
               ELSE /\ \A g \in 1..Len(clustered) : Cardinality(TemplatesOf(g)) = 1
                    /\ Len(clustered) = Cardinality(buckets)

\* a call has returned one cluster of three buckets, two of which are too far apart to
\* be linked and are connected by the third
C19_Witness ==
    /\ Len(clustered) = 1
    /\ TemplatesOf(1) = {TEMPLATE_IN, TEMPLATE_MID, TEMPLATE_FAR}
    /\ ~Linked(TEMPLATE_IN, TEMPLATE_FAR)

(***************************************************************************)
(* One call of the n-gram analysis                                         *)
(***************************************************************************)

\* the largest number of chapters of a template list, and the longest sequence of
\* sentence types drawn freely for a chapter
MaxNgramChapters == 3
MaxTypes == 3

SENTENCE_TYPES == {"D", "T", "E", "A", "N"}

\* a template of each sentence type: "「[名词]", "[思维]了", "[情感]地", "[移动]了", "[名词]的"
typed_template(t) ==
    CASE t = "D" -> <<12300, 91, 21517, 35789, 93>>
      [] t = "T" -> TAG_THOUGHT \o <<20102>>
      [] t = "E" -> TAG_EMOTION \o <<22320>>
      [] t = "A" -> <<91, 31227, 21160, 93, 20102>>
      [] t = "N" -> <<91, 21517, 35789, 93, 30340>>

\* twelve sentences with eleven distinct pairs of successive types
TYPES_WALK == <<"D", "D", "T", "T", "E", "E", "A", "A", "N", "N", "D", "E">>

TypeSequences == UNION {[1..n -> SENTENCE_TYPES] : n \in 1..MaxTypes} \cup {TYPES_WALK}

\* the template list of chapter_count chapters whose sentences all have these types;
\* the text of a sentence is "<chapter>-<position>"
typed_templates(chapter_count, types) ==
    [j \in 1..(chapter_count * Len(types)) |->
        [text |-> str_int((j - 1) \div Len(types) + 1) \o <<45>> \o str_int((j - 1) % Len(types)),
         template |-> typed_template(types[((j - 1) % Len(types)) + 1]),
         position |-> (j - 1) % Len(types),
         is_opening |-> (j - 1) % Len(types) < 3,
         is_ending |-> FALSE,
         chapter_id |-> (j - 1) \div Len(types) + 1,
         chapter_number |-> (j - 1) \div Len(types) + 1]]

InitNgram ==
    /\ chapters = <<>>
    /\ ANALYSIS_VERSION = Versions[1]
    /\ cache_table = {}
    /\ analysis_table = {}
    /\ db_cache = {}
    /\ db_analysis = {}
    /\ run = IdleRun
    /\ baseline = NoBaseline
    /\ edits = 0
    /\ template_items = <<>>
    /\ repeated_templates = 0
    /\ clustered = <<>>
    /\ analysed = NotAnalysed
    /\ OthersIdle

\* one call of analyze_ngram_patterns on a template list
MineNgrams(templates) ==
    /\ analysed = NotAnalysed
    /\ analysed' = [kind |-> "ngram", templates |-> templates,
                    bigrams |-> extract_ngrams(templates, 2),
                    trigrams |-> extract_ngrams(templates, 3),
                    ngram_analysis |-> analyze_ngram_patterns(templates)]
    /\ UNCHANGED <<analysis_vars, clustering_vars, other_vars>>

NextNgram ==
    \E chapter_count \in 1..MaxNgramChapters, types \in TypeSequences :
        MineNgrams(typed_templates(chapter_count, types))

SpecNgram == InitNgram /\ [][NextNgram]_vars

(***************************************************************************)
(* Properties of the n-gram report                                         *)
(***************************************************************************)

\* how often a pattern occurs in a list of n-grams
Frequency(ngrams, pattern) ==
    Cardinality({i \in 1..Len(ngrams) : ngrams[i].pattern = pattern})

\* an example is an occurrence of the pattern: its chapter number and its sentences
IsOccurrence(ngrams, pattern, example) ==
    \E i \in 1..Len(ngrams) :
        /\ ngrams[i].pattern = pattern
        /\ ngrams[i].chapter_number = example.chapter
        /\ ngrams[i].sentences = example.sentences

\* the reported patterns are the patterns of frequency >= 3, with their counts and
\* with 1 to 3 occurrences as examples
ReportsRepetitive(ngrams, reported) ==
    /\ \A i \in 1..Len(ngrams) :
          Frequency(ngrams, ngrams[i].pattern) >= 3 =>
              \E r \in 1..Len(reported) : reported[r].pattern = ngrams[i].pattern
    /\ \A r \in 1..Len(reported) :
          /\ reported[r].count = Frequency(ngrams, reported[r].pattern)
          /\ reported[r].count >= 3
          /\ Len(reported[r].examples) \in 1..3
          /\ \A e \in 1..Len(reported[r].examples) :
                IsOccurrence(ngrams, reported[r].pattern, reported[r].examples[e])

\* C20: in every call, every bigram pattern and every trigram pattern that occurs 3
\* times or more over all chapters is reported, with its exact count; no pattern that
\* occurs less often is reported; every reported pattern has 1 to 3 examples, each the
\* chapter number and the sentences of an occurrence of the pattern.
C20_RepetitiveNgramsReported ==
    analysed.kind = "ngram" =>
        /\ ReportsRepetitive(analysed.bigrams, analysed.ngram_analysis.bigram_patterns)
        /\ ReportsRepetitive(analysed.trigrams, analysed.ngram_analysis.trigram_patterns)

(***************************************************************************)
(* Properties of the diversity scores                                      *)
(***************************************************************************)

\* round(p / q): the nearest integer, a tie to the even one
Rounded(p, q) ==
    IF 2 * (p % q) > q THEN (p \div q) + 1
    ELSE IF 2 * (p % q) < q THEN p \div q
    ELSE IF (p \div q) % 2 = 0 THEN p \div q
    ELSE (p \div q) + 1

\* the number of distinct patterns of a list of n-grams
UniquePatterns(ngrams) == Cardinality({ngrams[i].pattern : i \in 1..Len(ngrams)})

\* C21: in every call of the n-gram analysis, the diversity score is
\* min(100, round(200 * unique_bigrams / total_bigrams)) when there are bigrams, and
\* 100 when there are none.
C21_NgramDiversityScore ==
    analysed.kind = "ngram" =>
        analysed.ngram_analysis.diversity_score =
            IF Len(analysed.bigrams) > 0
            THEN Min(100, Rounded(200 * UniquePatterns(analysed.bigrams), Len(analysed.bigrams)))
            ELSE 100

\* how often the j-th expression of the k-th category occurs in the chapters
Occurrences(k, j) ==
    sum_over([c \in 1..Len(chapters) |->
                 str_count(chapters[c], EMOTION_EXPRESSIONS(EMOTIONS[k])[j])], 1)

\* the sum of all occurrences of catalog expressions in the chapters
TotalOccurrences ==
    sum_over([k \in 1..Len(EMOTIONS) |->
                 sum_over([j \in 1..Len(EMOTION_EXPRESSIONS(EMOTIONS[k])) |-> Occurrences(k, j)], 1)],
             1)

\* the number of distinct (category, expression) pairs that occur in the chapters
UniqueOccurring ==
    Cardinality({p \in UNION {{<<k, j>> : j \in 1..Len(EMOTION_EXPRESSIONS(EMOTIONS[k]))} :
                                 k \in 1..Len(EMOTIONS)} :
                    Occurrences(p[1], p[2]) > 0})

\* 50 without occurrences, 60 below 10 occurrences, otherwise
\* min(100, min(70, round(200 * unique / total)) + min(30, 3 * unique))
ClaimedEmotionScore(total, unique) ==
    IF total = 0 THEN 50
    ELSE IF total < 10 THEN 60
    ELSE Min(100, Min(70, Rounded(200 * unique, total)) + Min(30, 3 * unique))

\* C22: on every corpus, the whole-corpus analyzer and the aggregated analyzer both
\* give the diversity score 50 without occurrences of catalog expressions, 60 with
\* fewer than 10, and otherwise
\* min(100, min(70, round(200 * unique / total)) + min(30, 3 * unique)).
C22_EmotionDiversityScore ==
    analysed.kind = "emotion" =>
        \E total \in {TotalOccurrences} : \E unique \in {UniqueOccurring} :
            /\ analysed.whole.diversity_score = ClaimedEmotionScore(total, unique)
            /\ analysed.aggregated.diversity_score = ClaimedEmotionScore(total, unique)

(***************************************************************************)
(* One call of the opening analysis and of its deduction                   *)
(***************************************************************************)

\* the largest number of chapter openings of a call
MaxOpenings == 43

\* "他走进了房间", an opening of type action, and "清晨天亮了", one of type time
OPENING_ACTION == <<20182, 36208, 36827, 20102, 25151, 38388>>
OPENING_TIME == <<28165, 26216, 22825, 20142, 20102>>

\* the first sentences of total chapters, of which the first action_count open with an
\* action and the others with a time
opening_sentences(action_count, total) ==
    [c \in 1..total |->
        [text |-> IF c <= action_count THEN OPENING_ACTION ELSE OPENING_TIME,
         chapter_id |-> c, chapter_number |-> c, position |-> 0,
         is_opening |-> TRUE, is_ending |-> FALSE]]

InitOpening ==
    /\ chapters = <<>>
    /\ ANALYSIS_VERSION = Versions[1]
    /\ cache_table = {}
    /\ analysis_table = {}
    /\ db_cache = {}
    /\ db_analysis = {}
    /\ run = IdleRun
    /\ baseline = NoBaseline
    /\ edits = 0
    /\ template_items = <<>>
    /\ repeated_templates = 0
    /\ clustered = <<>>
    /\ analysed = NotAnalysed
    /\ OthersIdle

\* one call of analyze_openings, and the opening deduction calculate_pattern_score
\* takes from its result
AnalyseOpenings(action_count, total) ==
    /\ analysed = NotAnalysed
    /\ \E opening_analysis \in {analyze_openings(opening_sentences(action_count, total))} :
          analysed' = [kind |-> "opening", action_count |-> action_count, total |-> total,
                       opening_analysis |-> opening_analysis,
                       deduction |-> opening_deduction(opening_analysis)]
    /\ UNCHANGED <<analysis_vars, clustering_vars, other_vars>>

NextOpening ==
    \E total \in 1..MaxOpenings : \E action_count \in 0..total :
        AnalyseOpenings(action_count, total)

SpecOpening == InitOpening /\ [][NextOpening]_vars

(***************************************************************************)
(* Properties of the opening monotony                                      *)
(***************************************************************************)

\* the number of openings of the dominant category
DominantCount(call) == Max(call.action_count, call.total - call.action_count)

\* C23: with share = openings of the dominant category / openings, monotony is flagged
\* exactly when share > 0.6; the opening deduction is 0 when it is not flagged, and
\* when flagged 20 if share > 0.8 and 12 otherwise (share > 0.6).
C23_OpeningMonotonyDeduction ==
    analysed.kind = "opening" =>
        /\ analysed.opening_analysis.dominant_count = DominantCount(analysed)
        /\ analysed.opening_analysis.is_monotonous
                <=> 10 * DominantCount(analysed) > 6 * analysed.total
        /\ analysed.deduction =
                IF ~(10 * DominantCount(analysed) > 6 * analysed.total) THEN 0
                ELSE IF 10 * DominantCount(analysed) > 8 * analysed.total THEN 20
                ELSE 12

(***************************************************************************)
(* The narrative tagger on its own: one call of extract_sentence_type on a *)
(* template put together from a few pieces                                 *)
(***************************************************************************)

\* the largest number of pieces of a template
MaxPieces == 3

\* what a template is put together from: every marker and placeholder the tagger looks
\* for, the noun placeholder and the plain character "了"
TemplatePieces ==
    DIALOGUE_MARKERS \cup ACTION_TAGS
        \cup {TAG_EMOTION, TAG_EXPRESSION, TAG_SPEECH, TAG_THOUGHT, PLACEHOLDER_NOUN, <<20102>>}

InitTagger ==
    /\ chapters = <<>>
    /\ ANALYSIS_VERSION = Versions[1]
    /\ cache_table = {}
    /\ analysis_table = {}
    /\ db_cache = {}
    /\ db_analysis = {}
    /\ run = IdleRun
    /\ baseline = NoBaseline
    /\ edits = 0
    /\ template_items = <<>>
    /\ repeated_templates = 0
    /\ clustered = <<>>
    /\ analysed = NotAnalysed
    /\ OthersIdle

TagTemplate(pieces) ==
    /\ analysed = NotAnalysed
    /\ \E template \in {join(pieces)} :
          analysed' = [kind |-> "type", pieces |-> pieces, template |-> template,
                       type |-> extract_sentence_type(template)]
    /\ UNCHANGED <<analysis_vars, clustering_vars, other_vars>>

\* the first piece of a template is any piece, the pieces behind it are of these: "「",
\* the speech-verb, cognition, emotion and locomotion placeholders, the noun
\* placeholder and "了"
FollowingPieces ==
    {<<12300>>, TAG_SPEECH, TAG_THOUGHT, TAG_EMOTION, <<91, 31227, 21160, 93>>,
     PLACEHOLDER_NOUN, <<20102>>}

NextTagger ==
    \E first \in TemplatePieces : \E n \in 0..(MaxPieces - 1) :
        \E following \in [1..n -> FollowingPieces] : TagTemplate(<<first>> \o following)

SpecTagger == InitTagger /\ [][NextTagger]_vars

\* the pieces a tagged template was put together from
PiecesOf(call) == {call.pieces[i] : i \in DOMAIN call.pieces}

\* C24: the tag of a template is Dialogue if it holds a quotation/speech marker or the
\* speech-verb placeholder, otherwise Thought if it holds the cognition placeholder,
\* otherwise Emotion if it holds the emotion or the facial-expression placeholder,
\* otherwise Action if it holds a vision, locomotion, manipulation, posture or
\* head-motion placeholder, otherwise Narrative: always one of the five tags, the
\* feature of higher priority winning over any lower ones present.
C24_TaggerPriority ==
    analysed.kind = "type" =>
        /\ analysed.type \in SENTENCE_TYPES
        /\ analysed.type =
              IF PiecesOf(analysed) \cap (DIALOGUE_MARKERS \cup {TAG_SPEECH}) # {} THEN "D"
              ELSE IF TAG_THOUGHT \in PiecesOf(analysed) THEN "T"
              ELSE IF PiecesOf(analysed) \cap {TAG_EMOTION, TAG_EXPRESSION} # {} THEN "E"
              ELSE IF PiecesOf(analysed) \cap ACTION_TAGS # {} THEN "A"
              ELSE "N"

\* a template with a quotation marker, the cognition placeholder and a locomotion
\* placeholder ("[思维]「[移动]") is tagged Dialogue
C24_Witness ==
    /\ analysed.kind = "type"
    /\ analysed.pieces = <<TAG_THOUGHT, <<12300>>, <<91, 31227, 21160, 93>>>>
    /\ analysed.type = "D"

(***************************************************************************)
(* Opening and ending flags                                                *)
(***************************************************************************)

\* the number of sentences of the chapter of a template item
SentencesOfChapter(templates, chapter_id) ==
    Cardinality({j \in DOMAIN templates : templates[j].chapter_id = chapter_id})

\* C25: in a chapter of k sentences (any k >= 1, k <= 3 included) the sentence at
\* position i has is_opening exactly when i < 3 and is_ending exactly when i >= k - 3,
\* in the full analysis and in the per-chapter analysis of the incremental one alike.
C25_OpeningEndingFlags ==
    analysed.kind \in {"full", "incremental"} =>
        \A j \in DOMAIN analysed.templates :
            /\ analysed.templates[j].is_opening <=> analysed.templates[j].position < 3
            /\ analysed.templates[j].is_ending <=>
                  analysed.templates[j].position
                      >= SentencesOfChapter(analysed.templates, analysed.templates[j].chapter_id) - 3

(***************************************************************************)
(* Template cache: extract_template_cached is the abstractor wrapped by    *)
(* functools.lru_cache(maxsize=TEMPLATE_CACHE_SIZE)                        *)
(***************************************************************************)

TEMPLATE_CACHE_SIZE == 20000

\* key in cache
cache_has(cache, key) == \E i \in DOMAIN cache.links : cache.links[i].key = key

cache_result(cache, key) ==
    cache.links[CHOOSE i \in DOMAIN cache.links : cache.links[i].key = key].result

\* a call that finds its key: the entry becomes the most recently used one and the
\* call returns the stored result
lru_cache_hit(cache, key) ==
    LET IsOther(link) == link.key # key
    IN  [cache EXCEPT !.links = SelectSeq(cache.links, IsOther)
                                  \o <<[key |-> key, result |-> cache_result(cache, key)]>>,
                      !.hits = @ + 1]

\* the memo not counting its misses
lru_cache_miss_uncounted(cache) == cache

\* a call that does not find its key counts a miss, then calls the wrapped function
lru_cache_miss(cache) == [cache EXCEPT !.misses = @ + 1]

\* the memo storing without looking whether the key came in meanwhile
lru_cache_store_unchecked(cache, key, result) ==
    IF Len(cache.links) >= TEMPLATE_CACHE_SIZE
    THEN [cache EXCEPT !.links = Append(Tail(cache.links), [key |-> key, result |-> result])]
    ELSE [cache EXCEPT !.links = Append(cache.links, [key |-> key, result |-> result])]

\* after the wrapped function returned: nothing to do when the key came in during the
\* call; the oldest entry gives way when the memo is full; else the entry is added
lru_cache_store(cache, key, result) ==
    IF cache_has(cache, key) THEN cache
    ELSE IF Len(cache.links) >= TEMPLATE_CACHE_SIZE
    THEN [cache EXCEPT !.links = Append(Tail(cache.links), [key |-> key, result |-> result])]
    ELSE [cache EXCEPT !.links = Append(cache.links, [key |-> key, result |-> result])]

\* one whole call extract_template_cached(sentence) with nothing in between
lru_cache_call(cache, sentence) ==
    IF cache_has(cache, sentence)
    THEN [lru_cache_hit(cache, sentence) EXCEPT
              !.calls = Append(@, sentence),
              !.returned = <<sentence, cache_result(cache, sentence)>>]
    ELSE [lru_cache_store(lru_cache_miss(cache), sentence, extract_template_simple_impl(sentence))
              EXCEPT !.calls = Append(@, sentence),
                     !.returned = <<sentence, extract_template_simple_impl(sentence)>>]

get_template_cache_info(cache) ==
    [hits |-> cache.hits, misses |-> cache.misses, maxsize |-> TEMPLATE_CACHE_SIZE,
     currsize |-> Len(cache.links)]

\* the largest number of calls after the memo was filled or cleared
MaxLookups == 3

\* the i-th of the one-character sentences the memo is filled with: the characters from
\* U+186A1 on, which the abstractor leaves as they are
filler_sentence(i) == <<100000 + i>>

\* the memo after the calls on the first filled filler sentences, one after the other
filled_cache(filled) ==
    [links |-> [i \in 1..filled |->
                   [key |-> filler_sentence(i),
                    result |-> extract_template_simple_impl(filler_sentence(i))]],
     hits |-> 0, misses |-> filled, calls |-> [i \in 1..filled |-> filler_sentence(i)],
     returned |-> IF filled = 0 THEN <<>>
                  ELSE <<filler_sentence(filled),
                         extract_template_simple_impl(filler_sentence(filled))>>]

\* how many filler sentences the memo has seen at the start: none, one less than it
\* can hold, as many as it can hold
Fillings == {0, TEMPLATE_CACHE_SIZE - 1, TEMPLATE_CACHE_SIZE}

\* the sentences looked up: the two oldest filler sentences, "他走进了房间" and
\* "清晨天亮了"
LookupPool == {filler_sentence(1), filler_sentence(2), OPENING_ACTION, OPENING_TIME}

InitTemplateCache ==
    /\ chapters = <<>>
    /\ ANALYSIS_VERSION = Versions[1]
    /\ cache_table = {}
    /\ analysis_table = {}
    /\ db_cache = {}
    /\ db_analysis = {}
    /\ run = IdleRun
    /\ baseline = NoBaseline
    /\ edits = 0
    /\ template_items = <<>>
    /\ repeated_templates = 0
    /\ clustered = <<>>
    /\ analysed = NotAnalysed
    /\ \E filled \in Fillings : template_cache = filled_cache(filled)
    /\ workers = <<>>
    /\ sessions = <<>>

Lookup(sentence) ==
    /\ \E filled \in Fillings :
          /\ filled <= Len(template_cache.calls)
          /\ Len(template_cache.calls) < filled + MaxLookups
    /\ template_cache' = lru_cache_call(template_cache, sentence)
    /\ UNCHANGED <<analysis_vars, clustering_vars, analysed, workers, sessions>>

clear_template_cache ==
    /\ template_cache' = EmptyTemplateCache
    /\ UNCHANGED <<analysis_vars, clustering_vars, analysed, workers, sessions>>

NextTemplateCache == (\E sentence \in LookupPool : Lookup(sentence)) \/ clear_template_cache

SpecTemplateCache == InitTemplateCache /\ [][NextTemplateCache]_vars

\* the sentences the memo holds
CachedSentences(cache) == {cache.links[i].key : i \in DOMAIN cache.links}

\* the sentences used after the last call on the sentence
UsedSince(calls, sentence) ==
    {calls[j] : j \in (CHOOSE i \in DOMAIN calls :
                          /\ calls[i] = sentence
                          /\ \A k \in (i + 1)..Len(calls) : calls[k] # sentence) + 1..Len(calls)}

\* C26: after any sequence of lookups and clears the memo holds at most as many entries
\* as its capacity, one per sentence; a sentence looked up since the last clear is
\* missing only when a full memo's worth of other sentences was used after it (the
\* least recently used ones give way); hits + misses is the number of lookups since the
\* last clear; and what a lookup returns is what the abstractor computes from the
\* sentence, hit or miss, after an eviction or a clear.
C26_TransparentBoundedLRU ==
    /\ Len(template_cache.links) <= TEMPLATE_CACHE_SIZE
    /\ \E cached \in {CachedSentences(template_cache)} :
       \E called \in {{template_cache.calls[i] : i \in DOMAIN template_cache.calls}} :
          /\ Cardinality(cached) = Len(template_cache.links)
          /\ Cardinality(called) <= Len(template_cache.calls)
          /\ cached \subseteq called
          /\ \A sentence \in called \ cached :
                Cardinality(UsedSince(template_cache.calls, sentence)) >= TEMPLATE_CACHE_SIZE
    /\ template_cache.hits + template_cache.misses = Len(template_cache.calls)
    /\ get_template_cache_info(template_cache).currsize <= get_template_cache_info(template_cache).maxsize
    /\ template_cache.returned # <<>> =>
          template_cache.returned[2] = extract_template_simple_impl(template_cache.returned[1])

\* a full memo from which the oldest sentence was evicted by "他走进了房间", which is then found
C26_Witness ==
    /\ Len(template_cache.links) = TEMPLATE_CACHE_SIZE
    /\ filler_sentence(1) \notin CachedSentences(template_cache)
    /\ template_cache.hits = 1
    /\ template_cache.returned = <<OPENING_ACTION, extract_template_simple_impl(OPENING_ACTION)>>

(***************************************************************************)
(* Template cache shared by callers that run at the same time: the lookup  *)
(* of a call and the storing after the wrapped function returned are each  *)
(* one step, other callers run in between                                  *)
(***************************************************************************)

\* the number of callers
MaxWorkers == 2

Workers == 1..MaxWorkers

\* the sentences the callers look up: the oldest filler sentence, "他走进了房间" and
\* "清晨天亮了"
WorkerPool == {filler_sentence(1), OPENING_ACTION, OPENING_TIME}

IdleWorker == [pc |-> "idle", sentence |-> <<>>, template |-> <<>>, hit |-> FALSE]

InitCacheWorkers ==
    /\ chapters = <<>>
    /\ ANALYSIS_VERSION = Versions[1]
    /\ cache_table = {}
    /\ analysis_table = {}
    /\ db_cache = {}
    /\ db_analysis = {}
    /\ run = IdleRun
    /\ baseline = NoBaseline
    /\ edits = 0
    /\ template_items = <<>>
    /\ repeated_templates = 0
    /\ clustered = <<>>
    /\ analysed = NotAnalysed
    /\ \E filled \in Fillings : template_cache = filled_cache(filled)
    /\ workers = [w \in Workers |-> IdleWorker]
    /\ sessions = <<>>

\* a caller enters extract_template_cached(sentence): a hit returns at once, a miss
\* goes on to the abstractor
WorkerLookup(w, sentence) ==
    /\ workers[w].pc = "idle"
    /\ IF cache_has(template_cache, sentence)
       THEN /\ template_cache' = [lru_cache_hit(template_cache, sentence) EXCEPT
                                     !.calls = Append(@, sentence),
                                     !.returned = <<sentence, cache_result(template_cache, sentence)>>]
            /\ workers' = [workers EXCEPT ![w] =
                              [pc |-> "done", sentence |-> sentence,
                               template |-> cache_result(template_cache, sentence), hit |-> TRUE]]
       ELSE /\ template_cache' = [lru_cache_miss(template_cache) EXCEPT !.calls = Append(@, sentence)]
            /\ workers' = [workers EXCEPT ![w] =
                              [pc |-> "computing", sentence |-> sentence, template |-> <<>>,
                               hit |-> FALSE]]
    /\ UNCHANGED <<analysis_vars, clustering_vars, analysed, sessions>>

\* the abstractor returned to a caller that missed: the memo takes the template and the
\* call returns it
WorkerStore(w) ==
    /\ workers[w].pc = "computing"
    /\ \E template \in {extract_template_simple_impl(workers[w].sentence)} :
          /\ template_cache' = [lru_cache_store(template_cache, workers[w].sentence, template)
                                   EXCEPT !.returned = <<workers[w].sentence, template>>]
          /\ workers' = [workers EXCEPT ![w].pc = "done", ![w].template = template]
    /\ UNCHANGED <<analysis_vars, clustering_vars, analysed, sessions>>

NextCacheWorkers ==
    \E w \in Workers : (\E sentence \in WorkerPool : WorkerLookup(w, sentence)) \/ WorkerStore(w)

SpecCacheWorkers == InitCacheWorkers /\ [][NextCacheWorkers]_vars

\* the number of entries the memo holds for the sentence
EntriesFor(cache, sentence) ==
    Cardinality({i \in DOMAIN cache.links : cache.links[i].key = sentence})

\* C27: callers looking up sentences in the shared memo at the same time, several of
\* them missing on one sentence at once included, obtain the same template for the same
\* sentence, and once their lookups have finished the memo holds at most one entry for
\* the sentence and no more entries than its capacity.
C27_ConcurrentLookups ==
    /\ \A v, w \in DOMAIN workers :
          (workers[v].pc = "done" /\ workers[w].pc = "done"
              /\ workers[v].sentence = workers[w].sentence)
          => workers[v].template = workers[w].template
    /\ (\A w \in DOMAIN workers : workers[w].pc # "computing") =>
          /\ \A w \in DOMAIN workers :
                workers[w].pc = "done" => EntriesFor(template_cache, workers[w].sentence) <= 1
          /\ Len(template_cache.links) <= TEMPLATE_CACHE_SIZE

\* all callers have missed on "他走进了房间" at once, each has its template, and the
\* memo holds the sentence once
C27_Witness ==
    /\ workers # <<>>
    /\ \A w \in DOMAIN workers :
          workers[w].pc = "done" /\ workers[w].sentence = OPENING_ACTION /\ ~workers[w].hit
    /\ template_cache.misses >= Len(workers)
    /\ EntriesFor(template_cache, OPENING_ACTION) = 1

(***************************************************************************)
(* The two analyses side by side                                           *)
(***************************************************************************)

\* the two results have the same status and, when successful, the same score, level,
\* patterns_found, top_patterns, opening analysis, emotion diversity score and n-gram
\* analysis
ResultsAgree(full, incremental) ==
    /\ full.status = incremental.status
    /\ full.status = "success" =>
          /\ full.score = incremental.score
          /\ full.level = incremental.level
          /\ full.patterns_found = incremental.patterns_found
          /\ full.top_patterns = incremental.top_patterns
          /\ full.opening_analysis = incremental.opening_analysis
          /\ full.emotion_diversity.diversity_score = incremental.emotion_diversity.diversity_score
          /\ full.ngram_analysis = incremental.ngram_analysis

\* C28: on every corpus with at least the minimum number of chapters, chapters whose
\* non-empty text has no sentence longer than 3 characters included, the full analysis
\* and the incremental analysis started from an empty cache return the same status
\* and, when successful, the same score, level, patterns_found, top_patterns, opening
\* analysis, emotion diversity score and n-gram analysis.
C28_FullAndIncrementalAgree ==
    /\ analysed.kind = "full" =>
          \E chapter_analyses \in {fresh_chapter_analyses(chapters, 1)} :
          \E incremental \in {incremental_result(chapter_analyses, Len(chapters), 0,
                                                 Len(chapter_analyses))} :
             ResultsAgree(analysed.result, incremental)
    /\ analysed.kind = "incremental" =>
          \E full \in {analyze_project_patterns_result(chapters)} :
             ResultsAgree(full, analysed.result)

(***************************************************************************)
(* Cache entries after a successful run                                    *)
(***************************************************************************)

\* C29: after every successful incremental run every cache entry of a chapter of the
\* project is valid for the chapter's current text (its hash is the hash of the current
\* text, its version the current version), whatever edits came before the run, a
\* chapter whose text was changed to empty after it was cached included.
C29_NoStaleEntryAfterRun ==
    (run.pc = "done" /\ run.kind = "incremental" /\ run.result.status = "success") =>
        \A c \in 1..Len(chapters) :
            entry_state(cache_table, chapters, ANALYSIS_VERSION, c) # "stale"

(***************************************************************************)
(* Two incremental analyses of one project at the same time, each in its   *)
(* own storage session.  A session reads the committed rows and what it    *)
(* has written itself; its writes reach the tables at its commit.          *)
(***************************************************************************)

\* the largest number of chapters of the project two analyses run on
MaxRunChapters == 2

Runs == {1, 2}

RunCorpora == UNION {[1..n -> TextPool] : n \in 1..MaxRunChapters}

\* a session at the start of the chapter loop; added and updated are the rows it has
\* added (db.add) and the rows it has changed, inserted_chapters and inserted_analysis
\* (history) tell which rows it has added
NewSession(force_refresh) ==
    [pc |-> "chapters", force_refresh |-> force_refresh, i |-> 1, chapter_analyses |-> <<>>,
     cached_chapters |-> {}, refreshed_chapters |-> {},
     cache_added |-> {}, cache_updated |-> {}, analysis_added |-> {}, analysis_updated |-> {},
     inserted_chapters |-> {}, inserted_analysis |-> FALSE,
     result |-> NoResult, error |-> "none"]

\* chapter_pattern_cache as a select of the session sees it
session_cache(committed, session) ==
    {row \in committed : cache_rows(session.cache_updated, row.chapter_id) = {}}
        \cup session.cache_updated \cup session.cache_added

\* project_pattern_analysis as a select of the session sees it
session_analysis(committed, session) ==
    {row \in committed : analysis_rows(session.analysis_updated, row.project_id) = {}}
        \cup session.analysis_updated \cup session.analysis_added

\* the end of get_or_create_chapter_cache in a session: the row found by the select is
\* changed, or a new row is added
session_upsert_cache(committed, session, c, analysis, row) ==
    IF cache_rows(session_cache(committed, session), c) # {}
    THEN [session EXCEPT
            !.cache_updated = {r \in @ : r.chapter_id # c} \cup {row},
            !.i = c + 1,
            !.pc = "chapters",
            !.chapter_analyses = Append(@, analysis),
            !.refreshed_chapters = @ \cup {c}]
    ELSE [session EXCEPT
            !.cache_added = @ \cup {row},
            !.inserted_chapters = @ \cup {c},
            !.i = c + 1,
            !.pc = "chapters",
            !.chapter_analyses = Append(@, analysis),
            !.refreshed_chapters = @ \cup {c}]

\* save_pattern_analysis in a session
session_save_pattern_analysis(committed, session, result) ==
    LET row == [project_id |-> PROJECT_ID, fields |-> stored_fields(result),
                detection_version |-> "2.0"]
    IN  IF analysis_rows(session_analysis(committed, session), PROJECT_ID) # {}
        THEN [session EXCEPT !.analysis_updated = {row}, !.pc = "commit", !.result = result]
        ELSE [session EXCEPT !.analysis_added = {row}, !.inserted_analysis = TRUE,
                             !.pc = "commit", !.result = result]

\* chapter_id of chapter_pattern_cache and project_id of project_pattern_analysis are
\* unique: a row added for a chapter or a project that has a committed row is rejected
unique_violation(committed_cache, committed_analysis, session) ==
    \/ \E row \in session.cache_added : cache_rows(committed_cache, row.chapter_id) # {}
    \/ \E row \in session.analysis_added : analysis_rows(committed_analysis, row.project_id) # {}

\* the rows a successful analysis of the chapters leaves committed
stored_cache(chapter_list) ==
    {cache_row(c, c, compute_content_hash(chapter_list[c]),
               analyze_single_chapter(c, c, chapter_list[c]), Versions[2]) :
        c \in {d \in 1..Len(chapter_list) : chapter_list[d] # <<>>}}

stored_analysis(chapter_list) ==
    LET chapter_analyses == fresh_chapter_analyses(chapter_list, 1)
    IN  IF chapter_analyses = <<>> THEN {}
        ELSE save_pattern_analysis({}, PROJECT_ID,
                 incremental_result(chapter_analyses, Len(chapter_list), 0, Len(chapter_analyses)))

\* the project is new, or it was analysed before; the two runs are past their
\* min_chapters test
InitConcurrentRuns ==
    /\ chapters \in RunCorpora
    /\ ANALYSIS_VERSION = Versions[2]
    /\ \E analysed_before \in BOOLEAN :
          /\ cache_table = IF analysed_before THEN stored_cache(chapters) ELSE {}
          /\ analysis_table = IF analysed_before THEN stored_analysis(chapters) ELSE {}
    /\ db_cache = {}
    /\ db_analysis = {}
    /\ run = IdleRun
    /\ baseline = NoBaseline
    /\ edits = 0
    /\ template_items = <<>>
    /\ repeated_templates = 0
    /\ clustered = <<>>
    /\ analysed = NotAnalysed
    /\ template_cache = EmptyTemplateCache
    /\ workers = <<>>
    /\ \E force_refresh \in [Runs -> BOOLEAN] :
          sessions = [r \in Runs |-> NewSession(force_refresh[r])]

\* one pass of the chapter loop up to its first storage access: an empty chapter is
\* skipped; without force_refresh the chapter's row is selected and, when valid, used;
\* with force_refresh get_or_create_chapter_cache selects and writes at once
SessionChapter(r) ==
    /\ sessions[r].pc = "chapters"
    /\ sessions[r].i <= Len(chapters)
    /\ LET c == sessions[r].i
           content == chapters[c]
           content_hash == compute_content_hash(content)
       IN  IF skips_chapter(content)
           THEN sessions' = [sessions EXCEPT ![r].i = c + 1]
           ELSE IF consults_cache(sessions[r].force_refresh)
           THEN \E seen \in {session_cache(cache_table, sessions[r])} :
                   IF cache_is_valid(seen, c, content_hash, ANALYSIS_VERSION)
                   THEN sessions' = [sessions EXCEPT
                           ![r].i = c + 1,
                           ![r].chapter_analyses =
                               Append(@, analysis_from_cache(first_cache_row(seen, c), c, c)),
                           ![r].cached_chapters = @ \cup {c}]
                   ELSE sessions' = [sessions EXCEPT ![r].pc = "upsert"]
           ELSE \E analysis \in {analyze_single_chapter(c, c, content)} :
                   sessions' = [sessions EXCEPT ![r] =
                       session_upsert_cache(cache_table, sessions[r], c, analysis,
                           cache_row(c, c, content_hash, analysis, ANALYSIS_VERSION))]
    /\ UNCHANGED <<analysis_vars, clustering_vars, analysed, memo_vars>>

\* get_or_create_chapter_cache after a select that found no valid row: the chapter is
\* analysed, its row selected again and changed or added
SessionUpsert(r) ==
    /\ sessions[r].pc = "upsert"
    /\ LET c == sessions[r].i
           content_hash == compute_content_hash(chapters[c])
       IN  \E analysis \in {analyze_single_chapter(c, c, chapters[c])} :
              sessions' = [sessions EXCEPT ![r] =
                  session_upsert_cache(cache_table, sessions[r], c, analysis,
                      cache_row(c, c, content_hash, analysis, ANALYSIS_VERSION))]
    /\ UNCHANGED <<analysis_vars, clustering_vars, analysed, memo_vars>>

\* after the loop: the result is built and saved in the session; a run without content
\* returns at once
SessionAggregate(r) ==
    /\ sessions[r].pc = "chapters"
    /\ sessions[r].i > Len(chapters)
    /\ \E result \in {incremental_result(sessions[r].chapter_analyses, Len(chapters),
                                         Cardinality(sessions[r].cached_chapters),
                                         Cardinality(sessions[r].refreshed_chapters))} :
          sessions' = [sessions EXCEPT ![r] =
              IF result.status = "success"
              THEN session_save_pattern_analysis(analysis_table, sessions[r], result)
              ELSE [sessions[r] EXCEPT !.pc = "done", !.result = result]]
    /\ UNCHANGED <<analysis_vars, clustering_vars, analysed, memo_vars>>

\* await db.commit(): the session's rows reach the tables, unless a row it added breaks
\* a unique constraint, which raises and leaves the tables as they are
SessionCommit(r) ==
    /\ sessions[r].pc = "commit"
    /\ IF unique_violation(cache_table, analysis_table, sessions[r])
       THEN /\ sessions' = [sessions EXCEPT ![r].pc = "raised", ![r].error = "IntegrityError",
                                            ![r].result = NoResult]
            /\ UNCHANGED <<cache_table, analysis_table>>
       ELSE /\ cache_table' = session_cache(cache_table, sessions[r])
            /\ analysis_table' = session_analysis(analysis_table, sessions[r])
            /\ sessions' = [sessions EXCEPT
                  ![r].pc = "done",
                  ![r].cache_added = {}, ![r].cache_updated = {},
                  ![r].analysis_added = {}, ![r].analysis_updated = {}]
    /\ UNCHANGED <<clustering_vars, analysed, memo_vars, chapters, ANALYSIS_VERSION, db_cache,
                   db_analysis, run, baseline, edits>>

NextConcurrentRuns ==
    \E r \in Runs : SessionChapter(r) \/ SessionUpsert(r) \/ SessionAggregate(r) \/ SessionCommit(r)

SpecConcurrentRuns == InitConcurrentRuns /\ [][NextConcurrentRuns]_vars

\* C30: when two incremental runs on one project interleave at their storage reads and
\* writes, both runs complete successfully, the store ends with exactly one cache entry
\* per processed chapter and exactly one analysis result for the project, and no
\* interleaving makes both runs add a row for the same chapter or for the project.
C30_ConcurrentRuns ==
    /\ \A r \in DOMAIN sessions : sessions[r].pc # "raised"
    /\ (\A r \in DOMAIN sessions : sessions[r].pc = "done" /\ sessions[r].result.status = "success") =>
          /\ \A c \in chapters_with_content : Cardinality(cache_rows(cache_table, c)) = 1
          /\ Cardinality(analysis_rows(analysis_table, PROJECT_ID)) = 1
    /\ \A r, s \in DOMAIN sessions :
          r # s => /\ sessions[r].inserted_chapters \cap sessions[s].inserted_chapters = {}
                   /\ ~(sessions[r].inserted_analysis /\ sessions[s].inserted_analysis)

====
